---- MODULE Spec2Model ----
(***************************************************************************)
(* Model of the smart-recipe-assistant server side: the POST /recipes and  *)
(* POST /substitutions route handlers, RecipeGenerator (gemini.ts) and the *)
(* zod request schemas.  Texts are sequences of one-character strings;     *)
(* JSON values are tagged records [t, v].                                  *)
(***************************************************************************)
EXTENDS Integers, Sequences, FiniteSets, TLC

(***************************************************************************)
(* Bounds of the model.                                                    *)
(***************************************************************************)
\* largest number of recipe objects in one model completion
MaxBatch == 2
\* largest number of requests one behaviour serves
MaxRequests == 2
\* generateRecipes calls one useRecipes instance makes
MaxCalls == 3
\* form submissions that reach the hook, and entries of the form's list
MaxSubmissions == 2
MaxListed == 2

(***************************************************************************)
(* Characters and texts.                                                   *)
(***************************************************************************)
\* the backquote character (written as a name: TLA+ strings cannot hold it)
BT == "BQ"
NL == "\n"
SP == " "
DQ == "\""

Fence == <<BT, BT, BT>>
FenceJson == <<BT, BT, BT, "j", "s", "o", "n">>

Whitespace == {SP, NL, "\t", "\r"}
Digits == {"0", "1", "2", "3", "4", "5", "6", "7", "8", "9"}

DigitValue(c) ==
  CASE c = "0" -> 0 [] c = "1" -> 1 [] c = "2" -> 2 [] c = "3" -> 3
    [] c = "4" -> 4 [] c = "5" -> 5 [] c = "6" -> 6 [] c = "7" -> 7
    [] c = "8" -> 8 [] c = "9" -> 9

\* s has the text p at position i
HasAt(s, i, p) ==
  /\ i >= 1
  /\ i + Len(p) - 1 <= Len(s)
  /\ \A k \in 1..Len(p) : s[i + k - 1] = p[k]

\* String.prototype.trim
RECURSIVE TrimLeft(_)
TrimLeft(s) ==
  IF s /= <<>> /\ Head(s) \in Whitespace THEN TrimLeft(Tail(s)) ELSE s

RECURSIVE TrimRight(_)
TrimRight(s) ==
  IF s /= <<>> /\ s[Len(s)] \in Whitespace
  THEN TrimRight(SubSeq(s, 1, Len(s) - 1))
  ELSE s

Trim(s) == TrimRight(TrimLeft(s))

\* length of the match of /BQBQBQjson\n?|\n?BQBQBQ/ that starts at position i of s,
\* 0 when there is none; the first alternative is tried first, \n? is greedy
FenceMatchLen(s, i) ==
  IF HasAt(s, i, FenceJson)
  THEN IF HasAt(s, i + 7, <<NL>>) THEN 8 ELSE 7
  ELSE IF HasAt(s, i, <<NL>> \o Fence) THEN 4
  ELSE IF HasAt(s, i, Fence) THEN 3
  ELSE 0

\* the leftmost position at or after i where the pattern matches, 0 if none
NextFenceMatch(s, i) ==
  LET starts == {j \in i..Len(s) : FenceMatchLen(s, j) > 0}
  IN  IF starts = {} THEN 0
      ELSE CHOOSE j \in starts : \A k \in starts : j <= k

\* response.replace(/BQBQBQjson\n?|\n?BQBQBQ/g, '') from position i on: every
\* match is removed, leftmost first, and the scan resumes after the match
RECURSIVE ReplaceFencesFrom(_, _)
ReplaceFencesFrom(s, i) ==
  LET j == NextFenceMatch(s, i)
  IN  IF j = 0 THEN SubSeq(s, i, Len(s))
      ELSE SubSeq(s, i, j - 1) \o ReplaceFencesFrom(s, j + FenceMatchLen(s, j))

\* response.replace(/BQBQBQjson\n?|\n?BQBQBQ/g, '').trim()
CleanResponse(response) == Trim(ReplaceFencesFrom(response, 1))

(***************************************************************************)
(* JSON values and JSON.parse.                                             *)
(***************************************************************************)
JNull == [t |-> "null", v |-> 0]
JBool(b) == [t |-> "bool", v |-> b]
\* a number is kept as sign, integer part and fraction digits (no trailing
\* zeros), so that 2.5 is told from 2; JNum(n) is the integer n
JNum(n) == [t |-> "num", neg |-> n < 0, v |-> IF n < 0 THEN 0 - n ELSE n,
            frac |-> <<>>]
JStr(s) == [t |-> "str", v |-> s]
JArr(a) == [t |-> "arr", v |-> a]
JObj(f) == [t |-> "obj", v |-> f]

EmptyMap == [k \in {} |-> JNull]

\* the object f with member k set to x (a repeated key keeps the last value)
PutMember(f, k, x) ==
  [j \in (DOMAIN f) \cup {k} |-> IF j = k THEN x ELSE f[j]]

RECURSIVE SkipWs(_, _)
SkipWs(s, i) ==
  IF i <= Len(s) /\ s[i] \in Whitespace THEN SkipWs(s, i + 1) ELSE i

\* a failed parse, stopped at position i
ParseFail(i) == [ok |-> FALSE, val |-> JNull, pos |-> i]
ParseOk(x, i) == [ok |-> TRUE, val |-> x, pos |-> i]

\* where a string literal that starts at position i stops: at its closing
\* quote, at a character a literal may not hold, or past the end of the text
StringStop(s, i) ==
  CHOOSE k \in i..(Len(s) + 1) :
    /\ k = Len(s) + 1 \/ s[k] \in {DQ, NL, "\t", "\r", "\\"}
    /\ \A m \in i..(k - 1) : s[m] \notin {DQ, NL, "\t", "\r", "\\"}

StringUpTo(s, i, acc, stop) ==
  IF stop > Len(s) THEN ParseFail(stop)
  ELSE IF s[stop] = DQ THEN ParseOk(JStr(acc \o SubSeq(s, i, stop - 1)), stop + 1)
  ELSE ParseFail(stop)

\* the characters of a string literal from position i up to the closing quote;
\* a control character inside a string literal is a syntax error
ParseChars(s, i, acc) == StringUpTo(s, i, acc, StringStop(s, i))

RECURSIVE ParseDigits(_, _, _)
ParseDigits(s, i, acc) ==
  IF i <= Len(s) /\ s[i] \in Digits
  THEN ParseDigits(s, i + 1, acc * 10 + DigitValue(s[i]))
  ELSE ParseOk(JNum(acc), i)

\* the digits found from position i on
RECURSIVE DigitsFrom(_, _)
DigitsFrom(s, i) ==
  IF i <= Len(s) /\ s[i] \in Digits THEN <<s[i]>> \o DigitsFrom(s, i + 1) ELSE <<>>

RECURSIVE StripZeros(_)
StripZeros(d) ==
  IF d /= <<>> /\ d[Len(d)] = "0" THEN StripZeros(SubSeq(d, 1, Len(d) - 1)) ELSE d

\* the integer part of a number: a single 0, or digits not starting with 0
IntegerPart(s, i) ==
  IF i > Len(s) \/ s[i] \notin Digits THEN ParseFail(i)
  ELSE IF s[i] = "0" THEN ParseOk(JNum(0), i + 1)
  ELSE ParseDigits(s, i, 0)

\* the fraction digits d that follow the point after the integer part r
FractionOf(r, d) ==
  IF d = <<>> THEN ParseFail(r.pos + 1)
  ELSE ParseOk([r.val EXCEPT !.frac = StripZeros(d)], r.pos + 1 + Len(d))

WithFraction(s, r) ==
  IF ~r.ok THEN r
  ELSE IF r.pos <= Len(s) /\ s[r.pos] = "." THEN FractionOf(r, DigitsFrom(s, r.pos + 1))
  ELSE r

Negated(r) == IF r.ok THEN ParseOk([r.val EXCEPT !.neg = TRUE], r.pos) ELSE r

\* a number literal at position j: sign, integer part, fraction (the texts
\* the model reads carry no exponent)
ParseNumber(s, j) ==
  IF s[j] = "-" THEN Negated(WithFraction(s, IntegerPart(s, j + 1)))
  ELSE WithFraction(s, IntegerPart(s, j))

RECURSIVE ParseValue(_, _)
RECURSIVE ParseElements(_, _, _)
RECURSIVE ParseMembers(_, _, _)

\* the elements of an array, position i being the start of an element
ParseElements(s, i, acc) ==
  LET e == ParseValue(s, i)
      j == SkipWs(s, e.pos)
  IN  IF ~e.ok THEN e
      ELSE IF j > Len(s) THEN ParseFail(j)
      ELSE IF s[j] = "," THEN ParseElements(s, j + 1, Append(acc, e.val))
      ELSE IF s[j] = "]" THEN ParseOk(JArr(Append(acc, e.val)), j + 1)
      ELSE ParseFail(j)

\* the members of an object, position i being before a key
ParseMembers(s, i, acc) ==
  LET k == SkipWs(s, i)
  IN  IF k > Len(s) \/ s[k] /= DQ THEN ParseFail(k)
      ELSE
        LET key == ParseChars(s, k + 1, <<>>)
            c == SkipWs(s, key.pos)
        IN  IF ~key.ok THEN key
            ELSE IF c > Len(s) \/ s[c] /= ":" THEN ParseFail(c)
            ELSE
              LET x == ParseValue(s, c + 1)
                  j == SkipWs(s, x.pos)
                  obj == PutMember(acc, key.val.v, x.val)
              IN  IF ~x.ok THEN x
                  ELSE IF j > Len(s) THEN ParseFail(j)
                  ELSE IF s[j] = "," THEN ParseMembers(s, j + 1, obj)
                  ELSE IF s[j] = "}" THEN ParseOk(JObj(obj), j + 1)
                  ELSE ParseFail(j)

\* one JSON value starting at or after position i
ParseValue(s, i) ==
  LET j == SkipWs(s, i)
  IN  IF j > Len(s) THEN ParseFail(j)
      ELSE IF s[j] = "{" THEN
        LET k == SkipWs(s, j + 1)
        IN  IF k <= Len(s) /\ s[k] = "}"
            THEN ParseOk(JObj(EmptyMap), k + 1)
            ELSE ParseMembers(s, j + 1, EmptyMap)
      ELSE IF s[j] = "[" THEN
        LET k == SkipWs(s, j + 1)
        IN  IF k <= Len(s) /\ s[k] = "]"
            THEN ParseOk(JArr(<<>>), k + 1)
            ELSE ParseElements(s, j + 1, <<>>)
      ELSE IF s[j] = DQ THEN ParseChars(s, j + 1, <<>>)
      ELSE IF s[j] \in Digits \cup {"-"} THEN ParseNumber(s, j)
      ELSE IF HasAt(s, j, <<"n", "u", "l", "l">>) THEN ParseOk(JNull, j + 4)
      ELSE IF HasAt(s, j, <<"t", "r", "u", "e">>) THEN ParseOk(JBool(TRUE), j + 4)
      ELSE IF HasAt(s, j, <<"f", "a", "l", "s", "e">>) THEN ParseOk(JBool(FALSE), j + 5)
      ELSE ParseFail(j)

\* nothing but white space may follow the value r read from the text
WholeText(text, r) ==
  IF ~r.ok THEN r
  ELSE IF SkipWs(text, r.pos) <= Len(text) THEN ParseFail(SkipWs(text, r.pos))
  ELSE r

\* JSON.parse(text): a value, or a SyntaxError naming the offending position
JSONParse(text) == WholeText(text, ParseValue(text, 1))

(***************************************************************************)
(* JSON texts: the writers that produce the texts the handlers read.       *)
(***************************************************************************)
\* a string literal
Quoted(s) == <<DQ>> \o s \o <<DQ>>

RECURSIVE JoinTexts(_, _)
JoinTexts(parts, sep) ==
  IF parts = <<>> THEN <<>>
  ELSE IF Len(parts) = 1 THEN parts[1]
  ELSE parts[1] \o sep \o JoinTexts(Tail(parts), sep)

\* "key":value
MemberText(key, valueText) == Quoted(key) \o <<":">> \o valueText
ObjectText(members) == <<"{">> \o JoinTexts(members, <<",">>) \o <<"}">>
ArrayText(elements) == <<"[">> \o JoinTexts(elements, <<",">>) \o <<"]">>

\* the field names of the response and request shapes
K_recipes == <<"r", "e", "c", "i", "p", "e", "s">>
K_id == <<"i", "d">>
K_name == <<"n", "a", "m", "e">>
K_description == <<"d", "e", "s", "c", "r", "i", "p", "t", "i", "o", "n">>
K_cuisine == <<"c", "u", "i", "s", "i", "n", "e">>
K_prepTime == <<"p", "r", "e", "p", "T", "i", "m", "e">>
K_cookTime == <<"c", "o", "o", "k", "T", "i", "m", "e">>
K_totalTime == <<"t", "o", "t", "a", "l", "T", "i", "m", "e">>
K_difficulty == <<"d", "i", "f", "f", "i", "c", "u", "l", "t", "y">>
K_servings == <<"s", "e", "r", "v", "i", "n", "g", "s">>
K_ingredients == <<"i", "n", "g", "r", "e", "d", "i", "e", "n", "t", "s">>
K_amount == <<"a", "m", "o", "u", "n", "t">>
K_notes == <<"n", "o", "t", "e", "s">>
K_instructions == <<"i", "n", "s", "t", "r", "u", "c", "t", "i", "o", "n", "s">>
K_nutrition == <<"n", "u", "t", "r", "i", "t", "i", "o", "n">>
K_calories == <<"c", "a", "l", "o", "r", "i", "e", "s">>
K_protein == <<"p", "r", "o", "t", "e", "i", "n">>
K_carbs == <<"c", "a", "r", "b", "s">>
K_fat == <<"f", "a", "t">>
K_fiber == <<"f", "i", "b", "e", "r">>
K_sugar == <<"s", "u", "g", "a", "r">>
K_substitutions == <<"s", "u", "b", "s", "t", "i", "t", "u", "t", "i", "o", "n", "s">>
K_tags == <<"t", "a", "g", "s">>
K_tips == <<"t", "i", "p", "s">>
K_image == <<"i", "m", "a", "g", "e">>
K_dietaryFilters == <<"d", "i", "e", "t", "a", "r", "y", "F", "i", "l", "t", "e", "r", "s">>
K_maxPrepTime == <<"m", "a", "x", "P", "r", "e", "p", "T", "i", "m", "e">>
K_recipeName == <<"r", "e", "c", "i", "p", "e", "N", "a", "m", "e">>
K_recipeType == <<"r", "e", "c", "i", "p", "e", "T", "y", "p", "e">>
K_generalTips == <<"g", "e", "n", "e", "r", "a", "l", "T", "i", "p", "s">>
K_original == <<"o", "r", "i", "g", "i", "n", "a", "l">>

W_Easy == <<"E", "a", "s", "y">>
W_Medium == <<"M", "e", "d", "i", "u", "m">>
W_Hard == <<"H", "a", "r", "d">>

\* a recipe object in the exact shape the prompt asks for (no id)
FullRecipeText ==
  ObjectText(<<
    MemberText(K_name, Quoted(<<"P", "i", "e">>)),
    MemberText(K_description, Quoted(<<"d">>)),
    MemberText(K_cuisine, Quoted(<<"c">>)),
    MemberText(K_prepTime, Quoted(<<"5", "m">>)),
    MemberText(K_cookTime, Quoted(<<"9", "m">>)),
    MemberText(K_totalTime, Quoted(<<"1", "4", "m">>)),
    MemberText(K_difficulty, Quoted(W_Easy)),
    MemberText(K_servings, <<"4">>),
    MemberText(K_ingredients, ArrayText(<<
      ObjectText(<<MemberText(K_name, Quoted(<<"e", "g", "g">>)),
                   MemberText(K_amount, Quoted(<<"2">>))>>)>>)),
    MemberText(K_instructions, ArrayText(<<Quoted(<<"m", "i", "x">>)>>)),
    MemberText(K_nutrition, ObjectText(<<
      MemberText(K_calories, <<"3", "5", "0">>),
      MemberText(K_protein, Quoted(<<"2", "g">>)),
      MemberText(K_carbs, Quoted(<<"3", "g">>)),
      MemberText(K_fat, Quoted(<<"1", "g">>)),
      MemberText(K_fiber, Quoted(<<"5", "g">>)),
      MemberText(K_sugar, Quoted(<<"8", "g">>))>>)),
    MemberText(K_substitutions, ObjectText(<<
      MemberText(<<"e", "g", "g">>, Quoted(<<"f", "l", "a", "x">>))>>)),
    MemberText(K_tags, ArrayText(<<Quoted(<<"q">>)>>))
  >>)

\* the recipe objects a completion may hold: the full shape, a recipe that
\* carries its own id, a recipe with only a name, a name holding a code-fence
\* marker, an empty object and a null
RecipeItemTexts == <<
  FullRecipeText,
  ObjectText(<<MemberText(K_id, Quoted(<<"x">>)),
               MemberText(K_name, Quoted(<<"a">>))>>),
  ObjectText(<<MemberText(K_name, Quoted(<<"b">>))>>),
  ObjectText(<<MemberText(K_name, Quoted(<<"a", BT, BT, BT, "b">>))>>),
  ObjectText(<<>>),
  <<"n", "u", "l", "l">>
>>

\* the batches of at most MaxBatch recipe objects, as index sequences
Batches == UNION {[1..n -> 1..Len(RecipeItemTexts)] : n \in 0..MaxBatch}

\* {"recipes":[...]} written with a line break after the opening brace
BatchText(b) ==
  <<"{", NL, SP>>
    \o MemberText(K_recipes, ArrayText([i \in 1..Len(b) |-> RecipeItemTexts[b[i]]]))
    \o <<NL, "}">>

\* the Markdown code-fence wrappings a model puts around its JSON
FenceTags == {"none", "json", "plain"}
Wrap(tag, text) ==
  CASE tag = "none" -> text
    [] tag = "json" -> FenceJson \o <<NL>> \o text \o <<NL>> \o Fence
    [] tag = "plain" -> Fence \o <<NL>> \o text \o <<NL>> \o Fence

\* completions that are not a recipes object: prose, cut-off JSON, JSON of
\* another shape
OtherCompletions == {
  <<"S", "o", "r", "r", "y">>,
  <<"{", DQ, "r", "e", "c", "i", "p", "e", "s", DQ, ":", "[">>,
  <<"n", "u", "l", "l">>,
  <<"7">>,
  ArrayText(<<>>),
  ObjectText(<<>>),
  ObjectText(<<MemberText(K_recipes, <<"n", "u", "l", "l">>)>>),
  ObjectText(<<MemberText(K_recipes, <<"5">>)>>),
  ObjectText(<<MemberText(K_recipes, ObjectText(<<>>))>>),
  ObjectText(<<MemberText(K_recipes, Quoted(<<"a">>))>>),
  ObjectText(<<MemberText(K_name, ArrayText(<<>>))>>),
  FenceJson \o <<NL>> \o <<"o", "o", "p", "s">> \o <<NL>> \o Fence
}

Completions ==
  {Wrap(tag, BatchText(b)) : tag \in FenceTags, b \in Batches} \cup OtherCompletions

(***************************************************************************)
(* JavaScript values, errors and outcomes.                                 *)
(***************************************************************************)
\* the value of a property that is not there
JUndefined == [t |-> "undefined", v |-> 0]

\* an Error: its name, its message (a sequence of text parts) and, for the
\* wrapping errors of gemini.ts, the originalError it carries
NoError == [name |-> "none"]
JsError(name, message, originalError) ==
  [name |-> name, message |-> message, originalError |-> originalError]

\* what JSON.parse throws on a text that is not JSON
JsonSyntaxError(pos) ==
  JsError("SyntaxError", <<"Unexpected token in JSON at position", ToString(pos - 1)>>, NoError)

\* reading a property of null
NullPropertyError(key) ==
  JsError("TypeError", <<"Cannot read properties of null">>, NoError)

Returned(x) == [kind |-> "return", value |-> x]
Thrown(e) == [kind |-> "throw", error |-> e]

\* a parse result as the outcome of a call: the value, or the SyntaxError
OutcomeOfParse(r) ==
  IF r.ok THEN Returned(r.val) ELSE Thrown(JsonSyntaxError(r.pos))

\* JSON.parse as an outcome
JSONParseOutcome(text) == OutcomeOfParse(JSONParse(text))

\* value.key for a value that is neither null nor undefined
GetProperty(value, key) ==
  IF value.t = "obj" /\ key \in DOMAIN value.v THEN value.v[key] ELSE JUndefined

\* JavaScript truthiness of a JSON value
Truthy(x) ==
  CASE x.t \in {"undefined", "null"} -> FALSE
    [] x.t = "bool" -> x.v
    [] x.t = "num" -> x.v /= 0 \/ x.frac /= <<>>
    [] x.t = "str" -> x.v /= <<>>
    [] OTHER -> TRUE

\* Array.isArray
IsArray(x) == x.t = "arr"

\* the own enumerable properties { ...x } copies
Spread(x) ==
  CASE x.t = "obj" -> x.v
    [] x.t = "arr" -> [k \in {<<ToString(i - 1)>> : i \in 1..Len(x.v)} |->
                         x.v[CHOOSE i \in 1..Len(x.v) : k = <<ToString(i - 1)>>]]
    [] x.t = "str" -> [k \in {<<ToString(i - 1)>> : i \in 1..Len(x.v)} |->
                         JStr(<<x.v[CHOOSE i \in 1..Len(x.v) : k = <<ToString(i - 1)>>]>>)]
    [] OTHER -> EmptyMap

(***************************************************************************)
(* RecipeGenerator: the response parser and the domain mapper.             *)
(***************************************************************************)
\* the n-th identifier generateId produces (utils.ts is not in the source
\* tree; the specification asks for a locally generated identifier that does
\* not collide within a batch)
GenerateId(n) == JStr(<<"#", ToString(n)>>)

\* WithId with the spread written after the id: a model-supplied id wins
WithId_SpreadLast(recipe, id) ==
  JObj(IF K_id \in DOMAIN Spread(recipe) THEN Spread(recipe)
       ELSE PutMember(Spread(recipe), K_id, id))

\* ({ ...recipe, id: generateId() })
WithId(recipe, id) == JObj(PutMember(Spread(recipe), K_id, id))

\* MapRecipes that maps only the first entry of the array
MapRecipes_FirstOnly(recipes, idBase) ==
  [i \in 1..(IF Len(recipes) > 0 THEN 1 ELSE 0) |-> WithId(recipes[i], GenerateId(idBase + i))]

\* parsed.recipes.map(recipe => ({ ...recipe, id: generateId() })), idBase
\* identifiers having been generated before
MapRecipes(recipes, idBase) ==
  [i \in 1..Len(recipes) |-> WithId(recipes[i], GenerateId(idBase + i))]

\* the error of the shape check
MissingRecipesError ==
  JsError("Error", <<"Invalid response format: missing recipes array">>, NoError)

\* the shape check and the mapping: recipes is the value of parsed.recipes
CheckedRecipes(recipes, idBase) ==
  IF ~Truthy(recipes) \/ ~IsArray(recipes)
  THEN Thrown(MissingRecipesError)
  ELSE Returned(MapRecipes(recipes.v, idBase))

\* the try block after JSON.parse, parsed being what JSON.parse did
RecipesOfParsed(parsed, idBase) ==
  IF parsed.kind = "throw" THEN parsed
  ELSE IF parsed.value.t = "null" THEN Thrown(NullPropertyError(K_recipes))
  ELSE CheckedRecipes(GetProperty(parsed.value, K_recipes), idBase)

\* the body of the try block of parseRecipeResponse
ParseRecipeBody(response, idBase) ==
  RecipesOfParsed(JSONParseOutcome(CleanResponse(response)), idBase)

\* the catch block of parseRecipeResponse
WrapParsingError(r) ==
  IF r.kind = "throw"
  THEN Thrown(JsError("RecipeParsingError", <<"Failed to parse AI response">>, r.error))
  ELSE r

\* an outcome with every failure turned into an empty list
EmptyOnFailure(r) == IF r.kind = "throw" THEN Returned(<<>>) ELSE r

\* parseRecipeResponse that answers a failure with an empty list
parseRecipeResponse_EmptyOnFailure(response, idBase) ==
  EmptyOnFailure(ParseRecipeBody(response, idBase))

\* the catch block of parseRecipeResponse without the original error
WrapParsingErrorOnly(r) ==
  IF r.kind = "throw"
  THEN Thrown(JsError("RecipeParsingError", <<"Failed to parse AI response">>, NoError))
  ELSE r

\* parseRecipeResponse that wraps without keeping the original error
parseRecipeResponse_NoOriginal(response, idBase) ==
  WrapParsingErrorOnly(ParseRecipeBody(response, idBase))

\* parseRecipeResponse: whatever the try block throws is wrapped
parseRecipeResponse(response, idBase) ==
  WrapParsingError(ParseRecipeBody(response, idBase))

(***************************************************************************)
(* The zod schemas.                                                        *)
(***************************************************************************)
HasKey(f, k) == k \in DOMAIN f
IsStr(x) == x.t = "str"
IsNum(x) == x.t = "num"
IsStrArray(x) == x.t = "arr" /\ \A i \in 1..Len(x.v) : IsStr(x.v[i])

\* a required field of an object satisfies P; an optional one is absent or
\* satisfies P
Required(f, k, P(_)) == HasKey(f, k) /\ P(f[k])
Optional(f, k, P(_)) == ~HasKey(f, k) \/ P(f[k])

NonEmptyStr(x) == IsStr(x) /\ Len(x.v) >= 1
IsDifficulty(x) == IsStr(x) /\ x.v \in {W_Easy, W_Medium, W_Hard}
\* the number x against the integer n
NumLess(x, n) ==
  IF x.neg THEN x.v > 0 - n \/ (x.v = 0 - n /\ x.frac /= <<>>) ELSE x.v < n
NumGreater(x, n) ==
  IF x.neg THEN x.v < 0 - n ELSE x.v > n \/ (x.v = n /\ x.frac /= <<>>)
IsPositiveNum(x) == IsNum(x) /\ NumGreater(x, 0)

\* z.object({ name, amount, notes? })
IsIngredientEntry(x) ==
  /\ x.t = "obj"
  /\ Required(x.v, K_name, IsStr)
  /\ Required(x.v, K_amount, IsStr)
  /\ Optional(x.v, K_notes, IsStr)
IsIngredientEntries(x) ==
  x.t = "arr" /\ \A i \in 1..Len(x.v) : IsIngredientEntry(x.v[i])

\* z.object({ calories, protein, carbs, fat, fiber, sugar })
IsNutrition(x) ==
  /\ x.t = "obj"
  /\ Required(x.v, K_calories, IsNum)
  /\ \A k \in {K_protein, K_carbs, K_fat, K_fiber, K_sugar} : Required(x.v, k, IsStr)

\* z.record(z.string())
IsStrRecord(x) == x.t = "obj" /\ \A k \in DOMAIN x.v : IsStr(x.v[k])

\* RecipeSchema accepts x
RecipeSchema(x) ==
  /\ x.t = "obj"
  /\ Required(x.v, K_id, IsStr)
  /\ Required(x.v, K_name, NonEmptyStr)
  /\ \A k \in {K_description, K_cuisine, K_prepTime, K_cookTime, K_totalTime} :
       Required(x.v, k, IsStr)
  /\ Required(x.v, K_difficulty, IsDifficulty)
  /\ Required(x.v, K_servings, IsPositiveNum)
  /\ Required(x.v, K_ingredients, IsIngredientEntries)
  /\ Required(x.v, K_instructions, IsStrArray)
  /\ Required(x.v, K_nutrition, IsNutrition)
  /\ Required(x.v, K_substitutions, IsStrRecord)
  /\ Required(x.v, K_tags, IsStrArray)
  /\ Optional(x.v, K_tips, IsStr)
  /\ Optional(x.v, K_image, IsStr)

\* the dietary filter enumeration
DietaryFilterNames == {
  <<"v", "e", "g", "e", "t", "a", "r", "i", "a", "n">>,
  <<"v", "e", "g", "a", "n">>,
  <<"g", "l", "u", "t", "e", "n", "-", "f", "r", "e", "e">>,
  <<"d", "a", "i", "r", "y", "-", "f", "r", "e", "e">>,
  <<"k", "e", "t", "o">>,
  <<"p", "a", "l", "e", "o">>}

\* the limits the request schema sets
MinIngredients == 2
MaxIngredients == 15
MinIngredientLen == 1
MaxIngredientLen == 50
MinServings == 1
MaxServings == 12
DefaultServings == 4
MinPrepTime == 5
MaxPrepTimeLimit == 240
MinSubstitutionIngredients == 1

\* zod's name for the type of a value
TypeName(x) ==
  CASE x.t = "obj" -> "object" [] x.t = "arr" -> "array"
    [] x.t = "str" -> "string" [] x.t = "num" -> "number"
    [] x.t = "bool" -> "boolean" [] x.t = "null" -> "null"
    [] OTHER -> "undefined"

Issue(path, message) == [path |-> path, message |-> message]

\* the issue of a value of the wrong type ("Required" when it is missing)
TypeIssue(path, expected, x) ==
  IF x.t = "undefined" THEN Issue(path, <<"Required">>)
  ELSE Issue(path, <<"Expected", expected, "received", TypeName(x)>>)

RECURSIVE Flatten(_)
Flatten(seqs) ==
  IF seqs = <<>> THEN <<>> ELSE Head(seqs) \o Flatten(Tail(seqs))

\* the issues of each element of the array x, in order
ElementIssues(x, path, Check(_, _)) ==
  Flatten([i \in 1..Len(x.v) |-> Check(x.v[i], Append(path, ToString(i - 1)))])

\* z.string().min(1, ...).max(50, ...)
IngredientNameIssues(x, path) ==
  IF ~IsStr(x) THEN <<TypeIssue(path, "string", x)>>
  ELSE (IF Len(x.v) < MinIngredientLen
        THEN <<Issue(path, <<"Ingredient cannot be empty">>)>> ELSE <<>>)
    \o (IF Len(x.v) > MaxIngredientLen
        THEN <<Issue(path, <<"Ingredient name too long">>)>> ELSE <<>>)

\* z.array(...).min(2, ...).max(15, ...): the size checks, then the elements
IngredientsIssues(x) ==
  LET path == <<"ingredients">>
  IN  IF ~IsArray(x) THEN <<TypeIssue(path, "array", x)>>
      ELSE (IF Len(x.v) < MinIngredients
            THEN <<Issue(path, <<"Please enter at least 2 ingredients">>)>> ELSE <<>>)
        \o (IF Len(x.v) > MaxIngredients
            THEN <<Issue(path, <<"Maximum 15 ingredients allowed">>)>> ELSE <<>>)
        \o ElementIssues(x, path, IngredientNameIssues)

\* z.enum([...])
DietaryFilterIssues(x, path) ==
  IF ~IsStr(x) THEN <<TypeIssue(path, "enum", x)>>
  ELSE IF x.v \notin DietaryFilterNames THEN <<Issue(path, <<"Invalid enum value">>)>>
  ELSE <<>>

\* z.array(z.enum([...])).default([])
DietaryFiltersIssues(x) ==
  LET path == <<"dietaryFilters">>
  IN  IF x.t = "undefined" THEN <<>>
      ELSE IF ~IsArray(x) THEN <<TypeIssue(path, "array", x)>>
      ELSE ElementIssues(x, path, DietaryFilterIssues)

\* z.number().min(lo).max(hi) with the given messages
NumberIssues(x, path, lo, loMessage, hi, hiMessage) ==
  IF ~IsNum(x) THEN <<TypeIssue(path, "number", x)>>
  ELSE (IF NumLess(x, lo) THEN <<Issue(path, loMessage)>> ELSE <<>>)
    \o (IF NumGreater(x, hi) THEN <<Issue(path, hiMessage)>> ELSE <<>>)

\* z.number().min(1, ...).max(12, ...).default(4)
ServingsIssues(x) ==
  IF x.t = "undefined" THEN <<>>
  ELSE NumberIssues(x, <<"servings">>,
                    MinServings, <<"At least 1 serving required">>,
                    MaxServings, <<"Maximum 12 servings allowed">>)

\* z.number().min(5).max(240).optional()
MaxPrepTimeIssues(x) ==
  IF x.t = "undefined" THEN <<>>
  ELSE NumberIssues(x, <<"maxPrepTime">>,
                    MinPrepTime, <<"Number must be greater than or equal to 5">>,
                    MaxPrepTimeLimit, <<"Number must be less than or equal to 240">>)

\* the texts of an array of strings
StringsOf(x) == [i \in 1..Len(x.v) |-> x.v[i].v]

\* the outcome of schema.parse: the data, or a ZodError holding the issues
ZodOutcome(issues, data) ==
  IF issues /= <<>> THEN Thrown([name |-> "ZodError", errors |-> issues])
  ELSE Returned(data)

\* the texts of an array field that defaults to []
StringsOrDefault(x) == IF x.t = "undefined" THEN <<>> ELSE StringsOf(x)

\* IngredientInputSchema.parse(body): the validated data, or a ZodError with
\* the issues of every field, in the order of the schema's keys
IngredientInputSchemaParse(body) ==
  IF body.t /= "obj" THEN ZodOutcome(<<TypeIssue(<<>>, "object", body)>>, body)
  ELSE ZodOutcome(
         IngredientsIssues(GetProperty(body, K_ingredients))
           \o DietaryFiltersIssues(GetProperty(body, K_dietaryFilters))
           \o ServingsIssues(GetProperty(body, K_servings))
           \o MaxPrepTimeIssues(GetProperty(body, K_maxPrepTime)),
         [ingredients |-> StringsOf(GetProperty(body, K_ingredients)),
          dietaryFilters |-> StringsOrDefault(GetProperty(body, K_dietaryFilters)),
          servings |-> IF GetProperty(body, K_servings).t = "undefined"
                       THEN JNum(DefaultServings)
                       ELSE GetProperty(body, K_servings)])

\* z.string() / z.string().optional()
StringIssues(x, path) == IF IsStr(x) THEN <<>> ELSE <<TypeIssue(path, "string", x)>>
OptionalStringIssues(x, path) == IF x.t = "undefined" THEN <<>> ELSE StringIssues(x, path)

\* z.array(z.string()).min(1, ...)
SubstitutionIngredientsIssues(x) ==
  IF ~IsArray(x) THEN <<TypeIssue(<<"ingredients">>, "array", x)>>
  ELSE (IF Len(x.v) < MinSubstitutionIngredients
        THEN <<Issue(<<"ingredients">>, <<"At least one ingredient required">>)>>
        ELSE <<>>)
    \o ElementIssues(x, <<"ingredients">>, StringIssues)

\* z.array(z.string()).optional().default([])
SubstitutionFiltersIssues(x) ==
  IF x.t = "undefined" THEN <<>>
  ELSE IF ~IsArray(x) THEN <<TypeIssue(<<"dietaryFilters">>, "array", x)>>
  ELSE ElementIssues(x, <<"dietaryFilters">>, StringIssues)

\* SubstitutionRequestSchema.parse(body)
SubstitutionRequestSchemaParse(body) ==
  IF body.t /= "obj" THEN ZodOutcome(<<TypeIssue(<<>>, "object", body)>>, body)
  ELSE ZodOutcome(
         SubstitutionIngredientsIssues(GetProperty(body, K_ingredients))
           \o SubstitutionFiltersIssues(GetProperty(body, K_dietaryFilters))
           \o OptionalStringIssues(GetProperty(body, K_recipeName), <<"recipeName">>)
           \o OptionalStringIssues(GetProperty(body, K_recipeType), <<"recipeType">>),
         [ingredients |-> StringsOf(GetProperty(body, K_ingredients)),
          dietaryFilters |-> StringsOrDefault(GetProperty(body, K_dietaryFilters)),
          recipeName |-> GetProperty(body, K_recipeName),
          recipeType |-> GetProperty(body, K_recipeType)])

\* isValidIngredient of lib/utils: letters, spaces and hyphens only, at most
\* 50 characters, not empty once trimmed
Letters ==
  {"a", "b", "c", "d", "e", "f", "g", "h", "i", "j", "k", "l", "m", "n", "o", "p",
   "q", "r", "s", "t", "u", "v", "w", "x", "y", "z",
   "A", "B", "C", "D", "E", "F", "G", "H", "I", "J", "K", "L", "M", "N", "O", "P",
   "Q", "R", "S", "T", "U", "V", "W", "X", "Y", "Z"}
isValidIngredient(name) ==
  /\ \A i \in 1..Len(name) : name[i] \in Letters \cup {SP, "-"}
  /\ Len(name) <= MaxIngredientLen
  /\ Trim(name) /= <<>>

(***************************************************************************)
(* The prompts.  The fixed parts of a template are written as one symbol   *)
(* each; the interpolated parts are the texts themselves.                  *)
(***************************************************************************)
\* the text around the filters in the dietary-compliance line
ComplianceLead ==
  <<"-", " ", "M", "u", "s", "t", " ", "c", "o", "m", "p", "l", "y", " ",
    "w", "i", "t", "h", ":", " ">>
ComplianceTail ==
  <<" ", "d", "i", "e", "t", "a", "r", "y", " ", "r", "e", "q", "u", "i",
    "r", "e", "m", "e", "n", "t", "s">>

\* array.join(', ')
JoinComma(items) == JoinTexts(items, <<",", SP>>)

\* a number as a template literal writes it
NumberText(x) ==
  (IF x.neg THEN <<"-">> ELSE <<>>) \o <<ToString(x.v)>>
    \o (IF x.frac = <<>> THEN <<>> ELSE <<".">> \o x.frac)

\* buildRecipePrompt(ingredients, dietaryFilters, servings)
buildRecipePrompt(ingredients, dietaryFilters, servings) ==
  Trim(<<NL, "You are a creative and experienced chef assistant. Generate 3 diverse recipe suggestions based on these available ingredients: ">>
    \o JoinComma(ingredients)
    \o <<".", NL, NL, "Requirements: ... Include complete nutritional information per serving (">>
    \o NumberText(servings)
    \o <<" servings total)", NL,
         "- Suggest 2-3 ingredient substitutions for dietary flexibility", NL>>
    \o (IF Len(dietaryFilters) > 0
        THEN ComplianceLead \o JoinComma(dietaryFilters) \o ComplianceTail
        ELSE <<>>)
    \o <<NL, NL, "Return response as valid JSON with this exact structure: { recipes: [ { ... servings: ">>
    \o NumberText(servings)
    \o <<" ... } ] }", NL, NL,
         "Ensure all JSON is properly formatted and parseable. Do not include any text outside the JSON structure.",
         NL, SP, SP, SP, SP>>)

\* the prompt of generateSubstitutions; an absent recipeName or recipeType
\* leaves its line empty
SubstitutionPrompt(ingredients, dietaryFilters, recipeName, recipeType) ==
  Trim(<<NL, "You are a culinary expert specializing in ingredient substitutions. Provide smart substitution suggestions for the following ingredients: ">>
    \o JoinComma(ingredients)
    \o <<".", NL, NL, "Context:", NL>>
    \o (IF Truthy(recipeName) THEN <<"- Recipe: ">> \o recipeName.v ELSE <<>>)
    \o <<NL>>
    \o (IF Truthy(recipeType) THEN <<"- Recipe Type: ">> \o recipeType.v ELSE <<>>)
    \o <<NL>>
    \o (IF Len(dietaryFilters) > 0
        THEN <<"- Dietary Requirements: ">> \o JoinComma(dietaryFilters)
        ELSE <<>>)
    \o <<NL, NL, "For each ingredient, provide: ... Return response as valid JSON with this structure: { substitutions: [ ... ], generalTips: [ ... ] }",
         NL, NL,
         "Focus on practical, readily available substitutions that maintain recipe quality.",
         NL, SP, SP>>)

(***************************************************************************)
(* The model call and what follows it.                                     *)
(***************************************************************************)
\* what the provider's client rejects with
ProviderErrors == {
  JsError("Error", <<"fetch failed">>, NoError),
  JsError("GoogleGenerativeAIError", <<"Quota exceeded for project 42">>, NoError)}

\* the catch block of generateRecipes, written to pass the caught message on
WrapGenerationErrorLeaking(r) ==
  IF r.kind = "throw"
  THEN Thrown(JsError("RecipeGenerationError", r.error.message, r.error))
  ELSE r

\* generateRecipesAfterCall that passes the message of the caught error on
generateRecipesAfterCall_LeakMessage(outcome, idBase) ==
  WrapGenerationErrorLeaking(
    IF outcome.kind = "throw" THEN outcome
    ELSE parseRecipeResponse(outcome.value, idBase))

\* the catch block of generateRecipes
WrapGenerationError(r) ==
  IF r.kind = "throw"
  THEN Thrown(JsError("RecipeGenerationError", <<"Failed to generate recipes">>, r.error))
  ELSE r

\* generateRecipes from the model call on (the try block and its catch):
\* outcome is the completion the call resolved with or the error it rejected
\* with; parseRecipeResponse runs inside the same try block
generateRecipesAfterCall(outcome, idBase) ==
  WrapGenerationError(
    IF outcome.kind = "throw" THEN outcome
    ELSE parseRecipeResponse(outcome.value, idBase))

\* generateContent from the model call on
generateContentAfterCall(outcome) ==
  IF outcome.kind = "throw"
  THEN Thrown(JsError("RecipeGenerationError", <<"Failed to generate content">>, outcome.error))
  ELSE outcome

\* the catch block of generateSubstitutions: every failure is one plain Error
SubstitutionsFailure ==
  Thrown(JsError("Error", <<"Failed to generate ingredient substitutions">>, NoError))

\* the try block after JSON.parse: the parsed object itself is returned
SubstitutionsOfParsed(parsed) ==
  IF parsed.kind = "throw" THEN SubstitutionsFailure
  ELSE IF parsed.value.t = "null" THEN SubstitutionsFailure
  ELSE IF ~Truthy(GetProperty(parsed.value, K_substitutions)) THEN SubstitutionsFailure
  ELSE Returned(parsed.value)

\* the try block after generateContent
SubstitutionsOfContent(result) ==
  IF result.kind = "throw" THEN SubstitutionsFailure
  ELSE SubstitutionsOfParsed(JSONParseOutcome(CleanResponse(result.value)))

\* generateSubstitutions from the model call on
generateSubstitutionsAfterCall(outcome) ==
  SubstitutionsOfContent(generateContentAfterCall(outcome))

(***************************************************************************)
(* The responses of the route handlers.                                    *)
(***************************************************************************)
NoResponse == [status |-> 0]

ValidationErrorResponse(zodError) ==
  [status |-> 400,
   body |-> [success |-> FALSE, error |-> "Validation Error",
             message |-> <<"Invalid input data">>, details |-> zodError.errors]]

\* the catch block of POST /recipes
RecipesErrorResponse(error) ==
  IF error.name = "ZodError" THEN ValidationErrorResponse(error)
  ELSE IF "message" \in DOMAIN error
  THEN [status |-> 500,
        body |-> [success |-> FALSE, error |-> error.name, message |-> error.message]]
  ELSE [status |-> 500,
        body |-> [success |-> FALSE, error |-> "Unknown Error",
                  message |-> <<"An unexpected error occurred">>]]

RecipesSuccessResponse(recipes, now) ==
  [status |-> 200,
   body |-> [success |-> TRUE, recipes |-> recipes, totalCount |-> Len(recipes),
             processingTime |-> now]]

\* the catch block of POST /substitutions
SubstitutionsErrorResponse(error) ==
  IF error.name = "ZodError" THEN ValidationErrorResponse(error)
  ELSE [status |-> 500,
        body |-> [success |-> FALSE, error |-> "Substitution Error",
                  message |-> IF "message" \in DOMAIN error THEN error.message
                              ELSE <<"Failed to generate substitutions">>]]

SubstitutionsSuccessResponse(substitutions, now) ==
  [status |-> 200,
   body |-> [success |-> TRUE, substitutions |-> substitutions, processingTime |-> now]]

(***************************************************************************)
(* The request bodies and completions the handlers are run on.             *)
(***************************************************************************)
W_egg == <<"e", "g", "g">>
W_rice == <<"r", "i", "c", "e">>
W_vegan == <<"v", "e", "g", "a", "n">>

IngredientsMember(names) ==
  MemberText(K_ingredients, ArrayText([i \in 1..Len(names) |-> Quoted(names[i])]))

\* the body of the documented validation test: ingredients = []
B_emptyIngredients ==
  ObjectText(<<IngredientsMember(<<>>),
               MemberText(K_dietaryFilters, ArrayText(<<>>)),
               MemberText(K_servings, <<"4">>)>>)
\* two ingredients, everything else left to the defaults
B_twoIngredients == ObjectText(<<IngredientsMember(<<W_egg, W_rice>>)>>)
\* a body cut off in the middle: not JSON
B_cutOff == <<"{", DQ, "i", "n", "g", "r", "e", "d", "i", "e", "n", "t", "s", DQ, ":">>

RequestBodies == {
  \* accepted by both schemas
  B_twoIngredients,
  ObjectText(<<IngredientsMember(<<W_egg, W_rice>>),
               MemberText(K_dietaryFilters, ArrayText(<<Quoted(W_vegan)>>)),
               MemberText(K_servings, <<"2">>)>>),
  \* accepted by the substitution schema only
  ObjectText(<<IngredientsMember(<<W_egg>>),
               MemberText(K_recipeName, Quoted(<<"P", "i", "e">>))>>),
  ObjectText(<<IngredientsMember(<<W_egg, W_rice>>), MemberText(K_servings, <<"0">>)>>),
  ObjectText(<<IngredientsMember(<<W_egg, W_rice>>), MemberText(K_servings, <<"1", "3">>)>>),
  ObjectText(<<IngredientsMember(<<W_egg, W_rice>>),
               MemberText(K_dietaryFilters, ArrayText(<<Quoted(<<"r", "a", "w">>)>>))>>),
  \* rejected by both schemas
  B_emptyIngredients,
  ObjectText(<<MemberText(K_ingredients, Quoted(W_egg))>>),
  ObjectText(<<>>),
  <<"n", "u", "l", "l">>,
  \* not JSON
  B_cutOff,
  <<>>
}

\* further ingredient names: another letter case, a digit, a blank, and a
\* name that reads like the dietary-compliance line of the prompt
W_Egg == <<"E", "g", "g">>
W_eg1 == <<"e", "g", "1">>
W_blank == <<SP>>
W_forged ==
  <<"-", " ", "M", "u", "s", "t", " ", "c", "o", "m", "p", "l", "y", " ",
    "w", "i", "t", "h", ":", " ", "k", "e", "t", "o", " ", "d", "i", "e",
    "t", "a", "r", "y", " ", "r", "e", "q", "u", "i", "r", "e", "m", "e",
    "n", "t", "s">>

\* a name of n letters
LongName(n) == [i \in 1..n |-> "a"]

\* n different one-letter names
Alphabet ==
  <<"a", "b", "c", "d", "e", "f", "g", "h", "i", "j", "k", "l", "m", "n", "o",
    "p", "q", "r">>
DistinctNames(n) == [i \in 1..n |-> <<Alphabet[i]>>]

\* the ingredient lists around each limit of the schema
BoundaryIngredientLists ==
  {DistinctNames(n) : n \in 0..(MaxIngredients + 2)}
    \cup {<<W_egg, W_rice>>, <<W_egg, W_egg>>, <<W_egg, W_Egg>>, <<W_eg1, W_rice>>,
          <<W_blank, W_rice>>, <<<<>>, W_rice>>, <<W_forged, W_rice>>,
          <<LongName(MaxIngredientLen), W_rice>>,
          <<LongName(MaxIngredientLen + 1), W_rice>>}

\* the servings members around each limit: absent, numbers, a string
BoundaryServingsTexts ==
  {<<>>, <<"0">>, <<"1">>, <<"2", ".", "5">>, <<"1", "2">>, <<"1", "2", ".", "5">>,
   <<"1", "3">>, <<"-", "1">>, Quoted(<<"4">>)}

BoundaryFiltersTexts ==
  {<<>>, ArrayText(<<>>), ArrayText(<<Quoted(W_vegan)>>),
   ArrayText(<<Quoted(W_vegan), Quoted(<<"k", "e", "t", "o">>)>>),
   ArrayText(<<Quoted(<<"r", "a", "w">>)>>)}

\* a member that is left out when its text is empty
OptionalMember(key, valueText) ==
  IF valueText = <<>> THEN <<>> ELSE <<MemberText(key, valueText)>>

BodyText(names, filtersText, servingsText) ==
  ObjectText(<<IngredientsMember(names)>>
               \o OptionalMember(K_dietaryFilters, filtersText)
               \o OptionalMember(K_servings, servingsText))

\* request bodies that vary one field at a time around the schema's limits
BoundaryRequestBodies ==
  {BodyText(names, <<>>, <<>>) : names \in BoundaryIngredientLists}
    \cup {BodyText(<<W_egg, W_rice>>, <<>>, t) : t \in BoundaryServingsTexts}
    \cup {BodyText(<<W_egg, W_rice>>, t, <<>>) : t \in BoundaryFiltersTexts}
    \cup {BodyText(<<W_forged, W_rice>>, t, <<>>) : t \in BoundaryFiltersTexts}

\* the answers of the model while the request side is explored
FewModelTexts == {BatchText(<<>>), <<"S", "o", "r", "r", "y">>}

\* completions in the shape of the substitution prompt
SubstitutionCompletions ==
  LET entry == ObjectText(<<MemberText(K_original, Quoted(W_egg))>>)
      full == ObjectText(<<MemberText(K_substitutions, ArrayText(<<entry>>)),
                           MemberText(K_generalTips, ArrayText(<<Quoted(<<"t">>)>>))>>)
  IN  {full, Wrap("json", full),
       ObjectText(<<MemberText(K_substitutions, ArrayText(<<>>))>>),
       ObjectText(<<MemberText(K_substitutions, <<"5">>)>>),
       ObjectText(<<MemberText(K_substitutions, Quoted(<<>>))>>),
       ObjectText(<<MemberText(K_generalTips, ArrayText(<<>>))>>)}

\* what the model may answer a recipe prompt and a substitution prompt with
RecipeModelTexts == Completions
SubstitutionModelTexts == SubstitutionCompletions \cup OtherCompletions

(***************************************************************************)
(* The state.                                                              *)
(***************************************************************************)
VARIABLES
  pc,            \* "idle", "awaitModel" (suspended at the model call) or "done"
  endpoint,      \* "none", "recipes" or "substitutions"
  requestBody,   \* the text of the request body
  validation,    \* "none", "unparseable", "invalid" or "valid"
  prompt,        \* the prompt handed to the model, <<>> if none was built
  promptBuilds,  \* prompts built for this request
  modelCalls,    \* model.generateContent calls made for this request
  modelOutcome,  \* what the model call settled with
  parseOutcome,  \* what parseRecipeResponse returned or threw
  response,      \* the HTTP response
  idCounter,     \* identifiers generateId has produced so far
  served,        \* requests answered so far
  clock          \* Date.now(), advancing with every request

\* the browser side: the page, its form and the useRecipes hook
VARIABLES
  form,           \* the useState cells of IngredientInputForm
  state,          \* the RecipeState of useRecipes
  page,           \* the useState cells of HomePage
  pending,        \* the generateRecipes calls whose fetch has not settled
  issued,         \* generateRecipes calls made so far
  lastSettled,    \* the call that settled last, and what its fetch settled with
  lastSubmitted   \* what onSubmit was last invoked with

serverVars == <<pc, endpoint, requestBody, validation, prompt, promptBuilds, modelCalls,
                modelOutcome, parseOutcome, response, idCounter, served, clock>>
clientVars == <<form, state, page, pending, issued, lastSettled, lastSubmitted>>

VARIABLES
  modal,          \* the useState cells of RecipeModal
  toggled,        \* history: the recipes whose Save button was toggled on and not off again
  recipeFilters,  \* the FilterState (filters) of RecipeFilters
  suggest,        \* the debounced value of IngredientSuggestions
  timers          \* the setTimeout(addIngredient, 100) callbacks: those waiting, oldest
                  \* first, and as history the one that ran last

widgetVars == <<modal, toggled, recipeFilters, suggest, timers>>
vars == <<serverVars, clientVars, widgetVars>>

\* nothing has settled, nothing was submitted
NoCall == [call |-> 0]
NoSubmission == [submitted |-> FALSE]

\* the initial values of the useState cells
InitialForm ==
  [ingredients |-> <<>>, currentIngredient |-> <<>>, dietaryFilters |-> <<>>,
   servings |-> JNum(DefaultServings), validationError |-> JNull]
InitialState ==
  [recipes |-> JArr(<<>>), selectedRecipe |-> JNull, loading |-> FALSE, error |-> JNull]
InitialPage == [filteredRecipes |-> JArr(<<>>), showFilters |-> FALSE]
InitialModal == [showShare |-> FALSE, isFavorite |-> FALSE]
InitialFilters ==
  [search |-> <<>>, maxPrepTime |-> 999, servings |-> <<>>, difficulty |-> <<>>,
   cuisine |-> <<>>, dietary |-> <<>>, maxCalories |-> 2000]
InitialSuggest == [debouncedValue |-> <<>>]
NoTimers == [waiting |-> <<>>, lastRun |-> [ran |-> FALSE]]

NoOutcome == [kind |-> "none"]

Init ==
  /\ pc = "idle"
  /\ endpoint = "none"
  /\ requestBody = <<>>
  /\ validation = "none"
  /\ prompt = <<>>
  /\ promptBuilds = 0
  /\ modelCalls = 0
  /\ modelOutcome = NoOutcome
  /\ parseOutcome = NoOutcome
  /\ response = NoResponse
  /\ idCounter = 0
  /\ served = 0
  /\ clock = 1
  /\ form = InitialForm
  /\ state = InitialState
  /\ page = InitialPage
  /\ pending = {}
  /\ issued = 0
  /\ lastSettled = NoCall
  /\ lastSubmitted = NoSubmission
  /\ modal = InitialModal
  /\ toggled = {}
  /\ recipeFilters = InitialFilters
  /\ suggest = InitialSuggest
  /\ timers = NoTimers

(***************************************************************************)
(* POST /recipes.                                                          *)
(***************************************************************************)
\* the handler stops with the response for the error it caught
Stopped(v, errorResponse) ==
  [validation |-> v, prompt |-> <<>>, promptBuilds |-> 0, modelCalls |-> 0,
   pc |-> "done", response |-> errorResponse]

\* the handler is suspended at the model call it made with prompt p
Calling(v, p) ==
  [validation |-> v, prompt |-> p, promptBuilds |-> 1, modelCalls |-> 1,
   pc |-> "awaitModel", response |-> NoResponse]

\* generateRecipes is called with whatever the schema made of the body
RecipesCallUnchecked(validatedData) ==
  IF validatedData.kind = "throw"
  THEN Calling("invalid", buildRecipePrompt(<<>>, <<>>, JNum(DefaultServings)))
  ELSE Calling("valid", buildRecipePrompt(validatedData.value.ingredients,
                                          validatedData.value.dietaryFilters,
                                          validatedData.value.servings))

RecipesPostParsedUnchecked(body) ==
  IF body.kind = "throw" THEN Stopped("unparseable", RecipesErrorResponse(body.error))
  ELSE RecipesCallUnchecked(IngredientInputSchemaParse(body.value))

\* RecipesPostStep that calls generateRecipes whatever the schema says
RecipesPostStep_NoGate(bodyText) ==
  RecipesPostParsedUnchecked(JSONParseOutcome(bodyText))

\* POST /recipes from IngredientInputSchema.parse on: a ZodError is answered,
\* otherwise generateRecipes builds the prompt and calls the model
RecipesPostValidated(validatedData) ==
  IF validatedData.kind = "throw"
  THEN Stopped("invalid", RecipesErrorResponse(validatedData.error))
  ELSE Calling("valid", buildRecipePrompt(validatedData.value.ingredients,
                                          validatedData.value.dietaryFilters,
                                          validatedData.value.servings))

\* POST /recipes from request.json() on
RecipesPostParsed(body) ==
  IF body.kind = "throw" THEN Stopped("unparseable", RecipesErrorResponse(body.error))
  ELSE RecipesPostValidated(IngredientInputSchemaParse(body.value))

\* POST up to the model call: the body is read and validated, then
\* generateRecipes builds the prompt and calls the model
RecipesPostStep(bodyText) == RecipesPostParsed(JSONParseOutcome(bodyText))

PostRecipes(bodyText) ==
  /\ UNCHANGED <<clientVars, widgetVars>>
  /\ pc = "idle"
  /\ served < MaxRequests
  /\ \E step \in {RecipesPostStep(bodyText)} :
       /\ pc' = step.pc
       /\ validation' = step.validation
       /\ prompt' = step.prompt
       /\ promptBuilds' = step.promptBuilds
       /\ modelCalls' = step.modelCalls
       /\ response' = step.response
  /\ endpoint' = "recipes"
  /\ requestBody' = bodyText
  /\ modelOutcome' = NoOutcome
  /\ parseOutcome' = NoOutcome
  /\ clock' = clock + 1
  /\ UNCHANGED <<idCounter, served>>

\* the rest of POST once generateRecipes has settled
RecipesResponse(generated, now) ==
  IF generated.kind = "throw" THEN RecipesErrorResponse(generated.error)
  ELSE RecipesSuccessResponse(generated.value, now)

\* the identifiers generateId produced for a parse outcome
IdsGenerated(parsed) == IF parsed.kind = "return" THEN Len(parsed.value) ELSE 0

\* the model call resolves with a completion
RecipesModelResolves(text) ==
  /\ UNCHANGED <<clientVars, widgetVars>>
  /\ pc = "awaitModel"
  /\ endpoint = "recipes"
  /\ response' = RecipesResponse(generateRecipesAfterCall(Returned(text), idCounter), clock)
  /\ parseOutcome' = parseRecipeResponse(text, idCounter)
  /\ idCounter' = idCounter + IdsGenerated(parseOutcome')
  /\ modelOutcome' = Returned(text)
  /\ pc' = "done"
  /\ UNCHANGED <<endpoint, requestBody, validation, prompt, promptBuilds, modelCalls, served, clock>>

\* RecipesModelRejects that calls the model once more before giving up
RecipesModelRejects_Retry(error) ==
  /\ UNCHANGED <<clientVars, widgetVars>>
  /\ pc = "awaitModel"
  /\ endpoint = "recipes"
  /\ modelCalls < 3
  /\ modelCalls' = modelCalls + 1
  /\ UNCHANGED <<pc, endpoint, requestBody, validation, prompt, promptBuilds,
                 modelOutcome, parseOutcome, response, idCounter, served, clock>>

\* the model call rejects: generateRecipes rethrows, POST answers, no second call
RecipesModelRejects(error) ==
  /\ UNCHANGED <<clientVars, widgetVars>>
  /\ pc = "awaitModel"
  /\ endpoint = "recipes"
  /\ response' = RecipesResponse(generateRecipesAfterCall(Thrown(error), idCounter), clock)
  /\ modelOutcome' = Thrown(error)
  /\ pc' = "done"
  /\ UNCHANGED <<endpoint, requestBody, validation, prompt, promptBuilds, modelCalls,
                 parseOutcome, idCounter, served, clock>>

(***************************************************************************)
(* POST /substitutions.                                                    *)
(***************************************************************************)
\* POST /substitutions from SubstitutionRequestSchema.parse on
SubstitutionsPostValidated(validatedData) ==
  IF validatedData.kind = "throw"
  THEN Stopped("invalid", SubstitutionsErrorResponse(validatedData.error))
  ELSE Calling("valid", SubstitutionPrompt(validatedData.value.ingredients,
                                           validatedData.value.dietaryFilters,
                                           validatedData.value.recipeName,
                                           validatedData.value.recipeType))

\* POST /substitutions from request.json() on
SubstitutionsPostParsed(body) ==
  IF body.kind = "throw"
  THEN Stopped("unparseable", SubstitutionsErrorResponse(body.error))
  ELSE SubstitutionsPostValidated(SubstitutionRequestSchemaParse(body.value))

\* POST up to the model call
SubstitutionsPostStep(bodyText) == SubstitutionsPostParsed(JSONParseOutcome(bodyText))

PostSubstitutions(bodyText) ==
  /\ UNCHANGED <<clientVars, widgetVars>>
  /\ pc = "idle"
  /\ served < MaxRequests
  /\ \E step \in {SubstitutionsPostStep(bodyText)} :
       /\ pc' = step.pc
       /\ validation' = step.validation
       /\ prompt' = step.prompt
       /\ promptBuilds' = step.promptBuilds
       /\ modelCalls' = step.modelCalls
       /\ response' = step.response
  /\ endpoint' = "substitutions"
  /\ requestBody' = bodyText
  /\ modelOutcome' = NoOutcome
  /\ parseOutcome' = NoOutcome
  /\ clock' = clock + 1
  /\ UNCHANGED <<idCounter, served>>

SubstitutionsResponse(generated, now) ==
  IF generated.kind = "throw" THEN SubstitutionsErrorResponse(generated.error)
  ELSE SubstitutionsSuccessResponse(generated.value, now)

SubstitutionsModelResolves(text) ==
  /\ UNCHANGED <<clientVars, widgetVars>>
  /\ pc = "awaitModel"
  /\ endpoint = "substitutions"
  /\ response' = SubstitutionsResponse(generateSubstitutionsAfterCall(Returned(text)), clock)
  /\ modelOutcome' = Returned(text)
  /\ pc' = "done"
  /\ UNCHANGED <<endpoint, requestBody, validation, prompt, promptBuilds, modelCalls,
                 parseOutcome, idCounter, served, clock>>

SubstitutionsModelRejects(error) ==
  /\ UNCHANGED <<clientVars, widgetVars>>
  /\ pc = "awaitModel"
  /\ endpoint = "substitutions"
  /\ response' = SubstitutionsResponse(generateSubstitutionsAfterCall(Thrown(error)), clock)
  /\ modelOutcome' = Thrown(error)
  /\ pc' = "done"
  /\ UNCHANGED <<endpoint, requestBody, validation, prompt, promptBuilds, modelCalls,
                 parseOutcome, idCounter, served, clock>>

\* the response has been sent; the server takes the next request
NextRequest ==
  /\ UNCHANGED <<clientVars, widgetVars>>
  /\ pc = "done"
  /\ pc' = "idle"
  /\ served' = served + 1
  /\ endpoint' = "none"
  /\ requestBody' = <<>>
  /\ validation' = "none"
  /\ prompt' = <<>>
  /\ promptBuilds' = 0
  /\ modelCalls' = 0
  /\ modelOutcome' = NoOutcome
  /\ parseOutcome' = NoOutcome
  /\ response' = NoResponse
  /\ UNCHANGED <<idCounter, clock>>

Next ==
  \/ \E b \in RequestBodies : PostRecipes(b)
  \/ \E c \in RecipeModelTexts : RecipesModelResolves(c)
  \/ \E e \in ProviderErrors : RecipesModelRejects(e)
  \/ \E b \in RequestBodies : PostSubstitutions(b)
  \/ \E c \in SubstitutionModelTexts : SubstitutionsModelResolves(c)
  \/ \E e \in ProviderErrors : SubstitutionsModelRejects(e)
  \/ NextRequest

Spec == Init /\ [][Next]_vars

\* POST /recipes alone, with request bodies around the limits of the schema
RequestNext ==
  \/ \E b \in BoundaryRequestBodies : PostRecipes(b)
  \/ \E c \in FewModelTexts : RecipesModelResolves(c)
  \/ \E e \in ProviderErrors : RecipesModelRejects(e)
  \/ NextRequest

RequestSpec == Init /\ [][RequestNext]_vars

(***************************************************************************)
(* useRecipes.  A fetch settles with a response (status and body text) or  *)
(* is rejected with a reason.                                              *)
(***************************************************************************)
K_message == <<"m", "e", "s", "s", "a", "g", "e">>
K_error == <<"e", "r", "r", "o", "r">>
K_success == <<"s", "u", "c", "c", "e", "s", "s">>

HttpResponse(status, bodyText) == [kind |-> "response", status |-> status, body |-> bodyText]
Rejected(reason) == [kind |-> "rejected", reason |-> reason]

\* response.ok
ResponseOk(r) == r.status >= 200 /\ r.status <= 299

\* String(x), as new Error(x) and a template literal apply it
RECURSIVE StringOf(_)
StringOf(x) ==
  CASE x.t = "str" -> x.v
    [] x.t = "num" -> NumberText(x)
    [] x.t = "bool" -> IF x.v THEN <<"true">> ELSE <<"false">>
    [] x.t = "arr" ->
         JoinTexts([i \in 1..Len(x.v) |->
                      IF x.v[i].t \in {"null", "undefined"} THEN <<>> ELSE StringOf(x.v[i])],
                   <<",">>)
    [] x.t = "obj" -> <<"[object Object]">>
    [] OTHER -> <<x.t>>

\* await response.json().catch(() => ({}))
ErrorDataOf(parsed) == IF parsed.kind = "throw" THEN JObj(EmptyMap) ELSE parsed.value

\* HttpError that never looks at the message of the response
HttpError_StatusOnly(message, status) ==
  JsError("Error", <<"HTTP error! status: ", ToString(status)>>, NoError)

\* new Error(errorData.message || 'HTTP error! status: ' + response.status)
HttpError(message, status) ==
  JsError("Error",
          IF Truthy(message) THEN StringOf(message)
          ELSE <<"HTTP error! status: ", ToString(status)>>,
          NoError)

\* the branch of a response that is not ok: it always throws
NonOkOutcome(errorData, status) ==
  IF errorData.t = "null" THEN Thrown(NullPropertyError(K_message))
  ELSE Thrown(HttpError(GetProperty(errorData, K_message), status))

\* data.recipes || []
RecipesOrEmpty(x) == IF Truthy(x) THEN x ELSE JArr(<<>>)

\* the branch of an ok response: the recipes, or what response.json() or the
\* property read throws
OkOutcome(parsed) ==
  IF parsed.kind = "throw" THEN parsed
  ELSE IF parsed.value.t = "null" THEN Thrown(NullPropertyError(K_recipes))
  ELSE Returned(RecipesOrEmpty(GetProperty(parsed.value, K_recipes)))

\* the try block of generateRecipes from the settled fetch on
TryOutcome(outcome) ==
  IF outcome.kind = "rejected" THEN Thrown(outcome.reason)
  ELSE IF ~ResponseOk(outcome)
  THEN NonOkOutcome(ErrorDataOf(JSONParseOutcome(outcome.body)), outcome.status)
  ELSE OkOutcome(JSONParseOutcome(outcome.body))

\* error instanceof Error ? error.message : 'Unknown error occurred'
CaughtMessage(e) ==
  IF "message" \in DOMAIN e THEN e.message ELSE <<"Unknown error occurred">>

\* ApplyOutcome that drops a response arriving when loading is already false
ApplyOutcome_DropLate(st, r) ==
  IF ~st.loading THEN st
  ELSE IF r.kind = "return" THEN [st EXCEPT !.recipes = r.value, !.loading = FALSE]
  ELSE [st EXCEPT !.error = JStr(CaughtMessage(r.error)), !.loading = FALSE]

\* the setState of the success path and of the catch block
ApplyOutcome(st, r) ==
  IF r.kind = "return" THEN [st EXCEPT !.recipes = r.value, !.loading = FALSE]
  ELSE [st EXCEPT !.error = JStr(CaughtMessage(r.error)), !.loading = FALSE]

\* generateRecipes without its catch block: a failure leaves the state as it is
generateRecipesSettled_NoCatch(st, outcome) ==
  IF TryOutcome(outcome).kind = "return" THEN ApplyOutcome(st, TryOutcome(outcome))
  ELSE st

\* generateRecipes from the settled fetch to its last setState
generateRecipesSettled(st, outcome) == ApplyOutcome(st, TryOutcome(outcome))

\* the first setState of generateRecipes
StartGeneration(st) == [st EXCEPT !.loading = TRUE, !.error = JNull]

\* the texts a server answers with
T_ok1 ==
  <<"{", DQ, "s", "u", "c", "c", "e", "s", "s", DQ, ":", "t", "r", "u", "e",
    ",", DQ, "r", "e", "c", "i", "p", "e", "s", DQ, ":", "[", "{", DQ, "i",
    "d", DQ, ":", DQ, "1", DQ, ",", DQ, "n", "a", "m", "e", DQ, ":", DQ, "a",
    DQ, "}", "]", "}">>
T_ok2 ==
  <<"{", DQ, "s", "u", "c", "c", "e", "s", "s", DQ, ":", "t", "r", "u", "e",
    ",", DQ, "r", "e", "c", "i", "p", "e", "s", DQ, ":", "[", "{", DQ, "i",
    "d", DQ, ":", DQ, "2", DQ, ",", DQ, "n", "a", "m", "e", DQ, ":", DQ, "b",
    DQ, "}", "]", "}">>
T_okEmpty ==
  <<"{", DQ, "s", "u", "c", "c", "e", "s", "s", DQ, ":", "t", "r", "u", "e",
    ",", DQ, "r", "e", "c", "i", "p", "e", "s", DQ, ":", "[", "]", "}">>
T_okNoRecipes ==
  <<"{", DQ, "s", "u", "c", "c", "e", "s", "s", DQ, ":", "t", "r", "u", "e",
    "}">>
T_generationError ==
  <<"{", DQ, "s", "u", "c", "c", "e", "s", "s", DQ, ":", "f", "a", "l", "s",
    "e", ",", DQ, "e", "r", "r", "o", "r", DQ, ":", DQ, "R", "e", "c", "i",
    "p", "e", "G", "e", "n", "e", "r", "a", "t", "i", "o", "n", "E", "r",
    "r", "o", "r", DQ, ",", DQ, "m", "e", "s", "s", "a", "g", "e", DQ, ":",
    DQ, "F", "a", "i", "l", "e", "d", " ", "t", "o", " ", "g", "e", "n", "e",
    "r", "a", "t", "e", " ", "r", "e", "c", "i", "p", "e", "s", DQ, "}">>
T_validationError ==
  <<"{", DQ, "s", "u", "c", "c", "e", "s", "s", DQ, ":", "f", "a", "l", "s",
    "e", ",", DQ, "e", "r", "r", "o", "r", DQ, ":", DQ, "V", "a", "l", "i",
    "d", "a", "t", "i", "o", "n", " ", "E", "r", "r", "o", "r", DQ, ",", DQ,
    "m", "e", "s", "s", "a", "g", "e", DQ, ":", DQ, "I", "n", "v", "a", "l",
    "i", "d", " ", "i", "n", "p", "u", "t", " ", "d", "a", "t", "a", DQ, "}">>
T_noMessage ==
  <<"{", DQ, "e", "r", "r", "o", "r", DQ, ":", DQ, "x", DQ, "}">>
T_emptyMessage ==
  <<"{", DQ, "m", "e", "s", "s", "a", "g", "e", DQ, ":", DQ, DQ, "}">>
T_html ==
  <<"<", "h", "t", "m", "l", ">">>

\* what a fetch of /api/recipes may settle with: the answers of the route, an
\* answer of a proxy in front of it, a body that is not JSON, a network error
FetchFailed == JsError("TypeError", <<"Failed to fetch">>, NoError)
FetchOutcomes ==
  {HttpResponse(200, T_ok1), HttpResponse(200, T_ok2), HttpResponse(200, T_okEmpty),
   HttpResponse(200, T_okNoRecipes), HttpResponse(200, T_html),
   HttpResponse(500, T_generationError), HttpResponse(400, T_validationError),
   HttpResponse(500, T_noMessage), HttpResponse(500, T_emptyMessage),
   HttpResponse(502, T_html),
   Rejected(FetchFailed), Rejected(JStr(<<"a", "b", "o", "r", "t">>))}

\* the recipes any of the responses carries
RecipeChoices ==
  {JNull} \cup UNION {{GetProperty(JSONParse(t).val, K_recipes).v[i] :
                         i \in 1..Len(GetProperty(JSONParse(t).val, K_recipes).v)} :
                       t \in {T_ok1, T_ok2}}

\* the elements of the recipes list
RecipesShown == IF state.recipes.t = "arr" THEN {state.recipes.v[i] : i \in 1..Len(state.recipes.v)} ELSE {}

\* generateRecipes(input) up to its await
CallGenerateRecipes ==
  /\ issued < MaxCalls
  /\ issued' = issued + 1
  /\ pending' = pending \cup {issued + 1}
  /\ state' = StartGeneration(state)
  /\ UNCHANGED <<serverVars, widgetVars, form, page, lastSettled, lastSubmitted>>

\* the fetch of a call settles and generateRecipes runs to its end
FetchSettled(call, outcome) ==
  /\ call \in pending
  /\ pending' = pending \ {call}
  /\ lastSettled' = [call |-> call, outcome |-> outcome]
  /\ state' = generateRecipesSettled(state, outcome)

FetchSettles(call, outcome) ==
  /\ FetchSettled(call, outcome)
  /\ UNCHANGED <<serverVars, widgetVars, form, page, issued, lastSubmitted>>

clearRecipes ==
  /\ state' = [state EXCEPT !.recipes = JArr(<<>>), !.selectedRecipe = JNull]
  /\ UNCHANGED <<serverVars, widgetVars, form, page, pending, issued, lastSettled,
                 lastSubmitted>>

\* a recipe of the list on screen is selected, or the modal is closed
selectRecipe(recipe) ==
  /\ recipe \in RecipesShown \cup {JNull}
  /\ state' = [state EXCEPT !.selectedRecipe = recipe]
  /\ UNCHANGED <<serverVars, widgetVars, form, page, pending, issued, lastSettled,
                 lastSubmitted>>

clearError ==
  /\ state' = [state EXCEPT !.error = JNull]
  /\ UNCHANGED <<serverVars, widgetVars, form, page, pending, issued, lastSettled,
                 lastSubmitted>>

\* the hook on its own, as a test renders it: calls may overlap
HookNext ==
  \/ CallGenerateRecipes
  \/ \E call \in 1..MaxCalls, outcome \in FetchOutcomes : FetchSettles(call, outcome)
  \/ clearRecipes
  \/ \E recipe \in RecipeChoices : selectRecipe(recipe)
  \/ clearError

HookSpec == Init /\ [][HookNext]_vars

\* the hook when the fetch of every call eventually settles
HookLiveSpec ==
  /\ HookSpec
  /\ \A call \in 1..MaxCalls :
       WF_vars(\E outcome \in FetchOutcomes : FetchSettles(call, outcome))

(***************************************************************************)
(* IngredientInputForm and HomePage.                                       *)
(***************************************************************************)
UpperCase ==
  <<"A", "B", "C", "D", "E", "F", "G", "H", "I", "J", "K", "L", "M", "N", "O", "P",
    "Q", "R", "S", "T", "U", "V", "W", "X", "Y", "Z">>
LowerCase ==
  <<"a", "b", "c", "d", "e", "f", "g", "h", "i", "j", "k", "l", "m", "n", "o", "p",
    "q", "r", "s", "t", "u", "v", "w", "x", "y", "z">>

\* String.prototype.toLowerCase
ToLowerCase(text) ==
  [i \in 1..Len(text) |->
     IF \E k \in 1..Len(UpperCase) : UpperCase[k] = text[i]
     THEN LowerCase[CHOOSE k \in 1..Len(UpperCase) : UpperCase[k] = text[i]]
     ELSE text[i]]

\* Array.prototype.includes
Includes(list, x) == \E i \in 1..Len(list) : list[i] = x

\* the text has the part somewhere inside
Contains(text, part) ==
  \E i \in 1..(Len(text) + 1) : HasAt(text, i, part)

ShowError(f, message) == [f EXCEPT !.validationError = JStr(<<message>>)]

\* addIngredient once currentIngredient is trimmed
AddTrimmed(f, trimmed) ==
  IF trimmed = <<>> THEN f
  ELSE IF ~isValidIngredient(trimmed)
  THEN ShowError(f, "Please enter a valid ingredient (letters, spaces, hyphens only)")
  ELSE IF Includes(f.ingredients, ToLowerCase(trimmed))
  THEN ShowError(f, "This ingredient is already added")
  ELSE IF Len(f.ingredients) >= MaxIngredients
  THEN ShowError(f, "Maximum 15 ingredients allowed")
  ELSE [f EXCEPT !.ingredients = Append(@, trimmed),
                 !.currentIngredient = <<>>,
                 !.validationError = JNull]

addIngredient(f) == AddTrimmed(f, Trim(f.currentIngredient))

\* prev.filter((_, i) => i !== index), index counted from 1 here
removeIngredient(f, index) ==
  [f EXCEPT !.ingredients =
     [i \in 1..(Len(@) - 1) |-> IF i < index THEN @[i] ELSE @[i + 1]]]

\* the value of a run of digits
RECURSIVE DigitsValue(_, _)
DigitsValue(d, acc) ==
  IF d = <<>> THEN acc ELSE DigitsValue(Tail(d), acc * 10 + DigitValue(Head(d)))

\* parseInt of a text without leading white space: a sign, then digits; the
\* rest of the text is ignored; NaN when there is no digit
ParseIntAt(text, i, negative) ==
  IF DigitsFrom(text, i) = <<>> THEN [nan |-> TRUE, value |-> JNum(0)]
  ELSE [nan |-> FALSE,
        value |-> [JNum(DigitsValue(DigitsFrom(text, i), 0)) EXCEPT !.neg = negative]]

ParseInt(text) ==
  IF text /= <<>> /\ text[1] \in {"-", "+"}
  THEN ParseIntAt(TrimLeft(text), 2, text[1] = "-")
  ELSE ParseIntAt(TrimLeft(text), 1, FALSE)

\* parseInt(e.target.value) || 4
ServingsOf(parsed) ==
  IF parsed.nan \/ ~Truthy(parsed.value) THEN JNum(DefaultServings) ELSE parsed.value

\* the object handleSubmit hands to IngredientInputSchema.parse
FormObject(f) ==
  JObj(PutMember(
         PutMember(
           PutMember(EmptyMap, K_ingredients,
                     JArr([i \in 1..Len(f.ingredients) |-> JStr(f.ingredients[i])])),
           K_dietaryFilters,
           JArr([i \in 1..Len(f.dietaryFilters) |-> JStr(f.dietaryFilters[i])])),
         K_servings, f.servings))

\* err.errors?.[0]?.message || 'Invalid input data'
FirstMessage(zodError) ==
  IF zodError.errors /= <<>> /\ zodError.errors[1].message /= <<>>
  THEN zodError.errors[1].message
  ELSE <<"Invalid input data">>

\* handleSubmit once the schema has parsed the form state
SubmitParsed(f, parsed) ==
  IF parsed.kind = "return"
  THEN [form |-> [f EXCEPT !.validationError = JNull],
        submitted |-> TRUE, data |-> parsed.value]
  ELSE [form |-> [f EXCEPT !.validationError = JStr(FirstMessage(parsed.error))],
        submitted |-> FALSE, data |-> JNull]

\* handleSubmit that hands the form state to onSubmit without parsing it
handleSubmit_NoParse(f) ==
  [form |-> [f EXCEPT !.validationError = JNull],
   submitted |-> TRUE,
   data |-> [ingredients |-> f.ingredients, dietaryFilters |-> f.dietaryFilters,
             servings |-> f.servings]]

\* handleSubmit: the new form state and, when the schema accepts, the data
\* onSubmit is invoked with
handleSubmit(f) == SubmitParsed(f, IngredientInputSchemaParse(FormObject(f)))

\* canSubmit that looks at the list only
canSubmit_IgnoreLoading(f, loading) == Len(f.ingredients) >= MinIngredients

\* const canSubmit = ingredients.length >= 2 && !loading
canSubmit(f, loading) == Len(f.ingredients) >= MinIngredients /\ ~loading

\* what the user may type into the ingredient field and the servings field
TypedIngredients == {W_Egg, <<SP>> \o W_rice, W_eg1}
TypedServings == {<<"1", "3">>, <<"x">>}
FilterChoices == {<<>>, <<<<"r", "a", "w">>>>}

\* onChange of the ingredient field, which is disabled while loading
TypeIngredient(text) ==
  /\ ~state.loading
  /\ form' = [form EXCEPT !.currentIngredient = text]
  /\ UNCHANGED <<serverVars, widgetVars, state, page, pending, issued, lastSettled,
                 lastSubmitted>>

\* the plus button or the Enter key
AddIngredient ==
  /\ ~state.loading
  /\ Len(form.ingredients) < MaxListed
  /\ form' = addIngredient(form)
  /\ UNCHANGED <<serverVars, widgetVars, state, page, pending, issued, lastSettled,
                 lastSubmitted>>

\* the X button of an entry
RemoveIngredient(index) ==
  /\ ~state.loading
  /\ index \in 1..Len(form.ingredients)
  /\ form' = removeIngredient(form, index)
  /\ UNCHANGED <<serverVars, widgetVars, state, page, pending, issued, lastSettled,
                 lastSubmitted>>

\* onChange of the servings field
ChangeServings(text) ==
  /\ ~state.loading
  /\ form' = [form EXCEPT !.servings = ServingsOf(ParseInt(text))]
  /\ UNCHANGED <<serverVars, widgetVars, state, page, pending, issued, lastSettled,
                 lastSubmitted>>

\* onChange of DietaryFilters
ChangeDietaryFilters(filters) ==
  /\ ~state.loading
  /\ form' = [form EXCEPT !.dietaryFilters = filters]
  /\ UNCHANGED <<serverVars, widgetVars, state, page, pending, issued, lastSettled,
                 lastSubmitted>>

\* handleRecipeGeneration up to its await: clearError(), then generateRecipes
\* up to the fetch
GenerationStarted ==
  /\ state' = StartGeneration([state EXCEPT !.error = JNull])
  /\ issued' = issued + 1
  /\ pending' = pending \cup {issued + 1}

\* the submit button, enabled by canSubmit: handleSubmit, and through onSubmit
\* handleRecipeGeneration
SubmitForm ==
  /\ canSubmit(form, state.loading)
  /\ issued < MaxSubmissions
  /\ \E step \in {handleSubmit(form)} :
       /\ form' = step.form
       /\ IF step.submitted
          THEN /\ lastSubmitted' = [submitted |-> TRUE, data |-> step.data]
               /\ GenerationStarted
          ELSE UNCHANGED <<state, issued, pending, lastSubmitted>>
  /\ UNCHANGED <<serverVars, widgetVars, page, lastSettled>>

\* HomePage once the state of the hook has changed from before to after: the
\* rest of handleRecipeGeneration hides the filters, then the effect on
\* recipes, which runs when the list was replaced, shows them for a non-empty
\* list
PageAfter(pg, before, after, replaced) ==
  IF replaced
  THEN [filteredRecipes |-> after.recipes,
        showFilters |-> after.recipes.t = "arr" /\ Len(after.recipes.v) > 0]
  ELSE [pg EXCEPT !.showFilters = FALSE]

\* the fetch of the page's request settles
PageFetchSettles(call, outcome) ==
  /\ FetchSettled(call, outcome)
  /\ page' = PageAfter(page, state, state', TryOutcome(outcome).kind = "return")
  /\ UNCHANGED <<serverVars, widgetVars, form, issued, lastSubmitted>>

\* a card of the grid, which shows no recipe while loading, or the modal's close
PageSelectRecipe(recipe) ==
  /\ recipe = JNull \/ ~state.loading
  /\ selectRecipe(recipe)

PageFetchOutcomes ==
  {HttpResponse(200, T_ok1), HttpResponse(200, T_okEmpty),
   HttpResponse(500, T_generationError), HttpResponse(502, T_html),
   Rejected(FetchFailed)}

\* the page with its form and its hook
PageNext ==
  \/ \E text \in TypedIngredients : TypeIngredient(text)
  \/ AddIngredient
  \/ \E index \in 1..MaxIngredients : RemoveIngredient(index)
  \/ \E text \in TypedServings : ChangeServings(text)
  \/ \E filters \in FilterChoices : ChangeDietaryFilters(filters)
  \/ SubmitForm
  \/ \E call \in 1..MaxSubmissions, outcome \in PageFetchOutcomes :
       PageFetchSettles(call, outcome)
  \/ \E recipe \in RecipeChoices : PageSelectRecipe(recipe)

PageSpec == Init /\ [][PageNext]_vars

\* ---- RecipeModal, which HomePage renders once and never unmounts ----

\* a response with two recipes
T_okPair ==
  ObjectText(<<
    MemberText(K_success, <<"t", "r", "u", "e">>),
    MemberText(K_recipes, ArrayText(<<
      ObjectText(<<MemberText(K_id, Quoted(<<"1">>)), MemberText(K_name, Quoted(<<"a">>))>>),
      ObjectText(<<MemberText(K_id, Quoted(<<"2">>)), MemberText(K_name, Quoted(<<"b">>))>>)
    >>))>>)

ModalFetchOutcomes ==
  {HttpResponse(200, T_okPair), HttpResponse(200, T_ok1),
   HttpResponse(500, T_generationError)}

\* toggleFavorite: setIsFavorite(!isFavorite); the button is rendered while a
\* recipe is open
toggleFavorite ==
  /\ state.selectedRecipe /= JNull
  /\ modal' = [modal EXCEPT !.isFavorite = ~modal.isFavorite]
  /\ toggled' = IF state.selectedRecipe \in toggled
                THEN toggled \ {state.selectedRecipe}
                ELSE toggled \cup {state.selectedRecipe}
  /\ UNCHANGED <<serverVars, clientVars, recipeFilters, suggest, timers>>

\* the Share button and the close of RecipeShare
SetShowShare(shown) ==
  /\ state.selectedRecipe /= JNull
  /\ modal.showShare /= shown
  /\ modal' = [modal EXCEPT !.showShare = shown]
  /\ UNCHANGED <<serverVars, clientVars, toggled, recipeFilters, suggest, timers>>

\* the hook, the grid's cards and the modal
ModalNext ==
  \/ CallGenerateRecipes
  \/ \E call \in 1..MaxCalls, outcome \in ModalFetchOutcomes : FetchSettles(call, outcome)
  \/ \E recipe \in RecipeChoices : selectRecipe(recipe)
  \/ toggleFavorite
  \/ \E shown \in BOOLEAN : SetShowShare(shown)

ModalSpec == Init /\ [][ModalNext]_vars

\* ---- RecipeFilters (components/layout/header.tsx) ----

DIFFICULTY_OPTIONS == {W_Easy, W_Medium, W_Hard}
PREP_TIME_OPTIONS == {15, 30, 60, 120, 999}

\* a recipe as the grid holds it, with the fields the filters read
FilterRecipe(name, prepTime, servings, difficulty, cuisine, tags, calories) ==
  JObj([key \in {K_name, K_description, K_ingredients, K_tags, K_prepTime, K_servings,
                 K_difficulty, K_cuisine, K_nutrition} |->
          IF key = K_name THEN JStr(name)
          ELSE IF key = K_description THEN JStr(<<"d">>)
          ELSE IF key = K_ingredients
          THEN JArr(<<JObj([k \in {K_name} |-> JStr(W_egg)])>>)
          ELSE IF key = K_tags THEN JArr(tags)
          ELSE IF key = K_prepTime THEN JStr(prepTime)
          ELSE IF key = K_servings THEN JNum(servings)
          ELSE IF key = K_difficulty THEN JStr(difficulty)
          ELSE IF key = K_cuisine THEN JStr(cuisine)
          ELSE JObj([k \in {K_calories} |-> JNum(calories)])])

R_pie == FilterRecipe(<<"P", "i", "e">>, <<"1", "5", SP, "m", "i", "n", "u", "t", "e", "s">>, 4, W_Easy, <<"c">>, <<JStr(W_vegan)>>, 350)
R_stew == FilterRecipe(<<"S", "t", "e", "w">>, <<"4", "5", SP, "m", "i", "n", "u", "t", "e", "s">>, 2, W_Medium, <<"k">>, <<>>, 600)
R_flan == FilterRecipe(<<"F", "l", "a", "n">>, <<"1", SP, "h", "o", "u", "r">>, 4, W_Hard, <<"c">>, <<>>, 1999)

\* the lists RecipeFilters is given as its recipes prop
FilterRecipeLists == {<<R_pie, R_stew>>, <<R_stew, R_flan, R_pie>>}

\* recipe.name, recipe.description, an ingredient name or a tag contains the
\* lower-cased search text
MatchesSearch(recipe, searchLower) ==
  \/ Contains(ToLowerCase(GetProperty(recipe, K_name).v), searchLower)
  \/ Contains(ToLowerCase(GetProperty(recipe, K_description).v), searchLower)
  \/ \E i \in 1..Len(GetProperty(recipe, K_ingredients).v) :
       Contains(ToLowerCase(GetProperty(GetProperty(recipe, K_ingredients).v[i], K_name).v),
                searchLower)
  \/ \E i \in 1..Len(GetProperty(recipe, K_tags).v) :
       Contains(ToLowerCase(GetProperty(recipe, K_tags).v[i].v), searchLower)

\* text.replace(/\D/g, '')
RECURSIVE DigitsOnly(_)
DigitsOnly(text) ==
  IF text = <<>> THEN <<>>
  ELSE IF Head(text) \in Digits THEN <<Head(text)>> \o DigitsOnly(Tail(text))
  ELSE DigitsOnly(Tail(text))

\* parseInt(recipe.prepTime.replace(/\D/g, '')) || 0
PrepMinutes(recipe) == DigitsValue(DigitsOnly(GetProperty(recipe, K_prepTime).v), 0)

\* the recipe passes every filter that applyFilters applies for newFilters
PassesFilters(recipe, newFilters) ==
  /\ newFilters.search /= <<>> => MatchesSearch(recipe, ToLowerCase(newFilters.search))
  /\ newFilters.maxPrepTime < 999 => PrepMinutes(recipe) <= newFilters.maxPrepTime
  /\ newFilters.servings /= <<>> =>
       Includes(newFilters.servings, GetProperty(recipe, K_servings))
  /\ newFilters.difficulty /= <<>> =>
       Includes(newFilters.difficulty, GetProperty(recipe, K_difficulty))
  /\ newFilters.cuisine /= <<>> =>
       Includes(newFilters.cuisine, GetProperty(recipe, K_cuisine))
  /\ \A i \in 1..Len(newFilters.dietary) :
       Includes(GetProperty(recipe, K_tags).v, newFilters.dietary[i])
  /\ newFilters.maxCalories < 2000 =>
       ~NumGreater(GetProperty(GetProperty(recipe, K_nutrition), K_calories),
                   newFilters.maxCalories)

\* applyFilters: the list handed to onFilter
RECURSIVE applyFilters(_, _)
applyFilters(recipes, newFilters) ==
  IF recipes = <<>> THEN <<>>
  ELSE IF PassesFilters(Head(recipes), newFilters)
  THEN <<Head(recipes)>> \o applyFilters(Tail(recipes), newFilters)
  ELSE applyFilters(Tail(recipes), newFilters)

RECURSIVE Without(_, _)
Without(array, value) ==
  IF array = <<>> THEN <<>>
  ELSE IF Head(array) = value THEN Without(Tail(array), value)
  ELSE <<Head(array)>> \o Without(Tail(array), value)

\* toggleArrayFilter: the new array for the key
ToggledArray(currentArray, value) ==
  IF Includes(currentArray, value) THEN Without(currentArray, value)
  ELSE Append(currentArray, value)

\* activeFilterCount > 0
HasActiveFilter(f) ==
  \/ f.search /= <<>>
  \/ f.maxPrepTime < 999
  \/ f.maxCalories < 2000
  \/ f.servings /= <<>> \/ f.difficulty /= <<>> \/ f.cuisine /= <<>> \/ f.dietary /= <<>>

\* HomePage renders RecipeFilters
FiltersRendered ==
  page.showFilters /\ state.recipes.t = "arr" /\ Len(state.recipes.v) > 0 /\ ~state.loading

\* updateFilter and clearFilters: setFilters(newFilters), applyFilters(newFilters),
\* and through onFilter the page's handleFilter
updateFilter(newFilters) ==
  /\ FiltersRendered
  /\ recipeFilters' = newFilters
  /\ page' = [page EXCEPT !.filteredRecipes = JArr(applyFilters(state.recipes.v, newFilters))]
  /\ UNCHANGED <<serverVars, form, state, pending, issued, lastSettled, lastSubmitted,
                 modal, toggled, suggest, timers>>

SearchTexts == {<<>>, <<"p", "i">>, <<"E", "G", "G">>}
PrepTimeChoices == {30, 999}
DifficultyChoices == {W_Easy, W_Hard}
CalorieChoices == {400, 2000}
ServingChoices == {2, 4}
CuisineChoices == {<<"c">>, <<"k">>}
DietaryChoices == {W_vegan}

SetSearch(text) ==
  /\ text /= recipeFilters.search
  /\ updateFilter([recipeFilters EXCEPT !.search = text])

SetMaxPrepTime(value) ==
  /\ value \in PREP_TIME_OPTIONS
  /\ updateFilter([recipeFilters EXCEPT !.maxPrepTime = value])

SetMaxCalories(value) ==
  /\ value /= recipeFilters.maxCalories
  /\ updateFilter([recipeFilters EXCEPT !.maxCalories = value])

\* a servings button: toggleArrayFilter('servings', serving.toString())
ToggleServings(serving) ==
  /\ \E i \in 1..Len(state.recipes.v) :
       GetProperty(state.recipes.v[i], K_servings) = JNum(serving)
  /\ updateFilter([recipeFilters EXCEPT
                     !.servings = ToggledArray(@, JStr(NumberText(JNum(serving))))])

ToggleDifficulty(diff) ==
  /\ diff \in DIFFICULTY_OPTIONS
  /\ updateFilter([recipeFilters EXCEPT !.difficulty = ToggledArray(@, JStr(diff))])

ToggleCuisine(cuisine) ==
  /\ \E i \in 1..Len(state.recipes.v) :
       GetProperty(state.recipes.v[i], K_cuisine) = JStr(cuisine)
  /\ updateFilter([recipeFilters EXCEPT !.cuisine = ToggledArray(@, JStr(cuisine))])

ToggleDietary(option) ==
  /\ option \in DietaryFilterNames
  /\ updateFilter([recipeFilters EXCEPT !.dietary = ToggledArray(@, JStr(option))])

clearFilters ==
  /\ HasActiveFilter(recipeFilters)
  /\ updateFilter(InitialFilters)

\* the server before any request
ServerIdle ==
  /\ pc = "idle"
  /\ endpoint = "none"
  /\ requestBody = <<>>
  /\ validation = "none"
  /\ prompt = <<>>
  /\ promptBuilds = 0
  /\ modelCalls = 0
  /\ modelOutcome = NoOutcome
  /\ parseOutcome = NoOutcome
  /\ response = NoResponse
  /\ idCounter = 0
  /\ served = 0
  /\ clock = 1

\* RecipeFilters as HomePage shows it after a generation that gave a list
FilterInit ==
  /\ ServerIdle
  /\ form = InitialForm
  /\ \E list \in FilterRecipeLists :
       /\ state = [InitialState EXCEPT !.recipes = JArr(list)]
       /\ page = [filteredRecipes |-> JArr(list), showFilters |-> TRUE]
  /\ pending = {}
  /\ issued = 0
  /\ lastSettled = NoCall
  /\ lastSubmitted = NoSubmission
  /\ modal = InitialModal
  /\ toggled = {}
  /\ recipeFilters = InitialFilters
  /\ suggest = InitialSuggest
  /\ timers = NoTimers

FilterNext ==
  \/ \E text \in SearchTexts : SetSearch(text)
  \/ \E value \in PrepTimeChoices : SetMaxPrepTime(value)
  \/ \E value \in CalorieChoices : SetMaxCalories(value)
  \/ \E serving \in ServingChoices : ToggleServings(serving)
  \/ \E diff \in DifficultyChoices : ToggleDifficulty(diff)
  \/ \E cuisine \in CuisineChoices : ToggleCuisine(cuisine)
  \/ \E option \in DietaryChoices : ToggleDietary(option)
  \/ clearFilters

FilterSpec == FilterInit /\ [][FilterNext]_vars

\* ---- IngredientSuggestions and the delayed add of the form ----

W_eggs == <<"e", "g", "g", "s">>

\* two entries of COMMON_INGREDIENTS, in the order of the list
COMMON_INGREDIENTS == <<W_eggs, W_rice>>

RECURSIVE NamesContaining(_, _)
NamesContaining(names, lowercaseQuery) ==
  IF names = <<>> THEN <<>>
  ELSE IF Contains(ToLowerCase(Head(names)), lowercaseQuery)
  THEN <<Head(names)>> \o NamesContaining(Tail(names), lowercaseQuery)
  ELSE NamesContaining(Tail(names), lowercaseQuery)

\* array.slice(0, n)
FirstN(array, n) == SubSeq(array, 1, IF Len(array) < n THEN Len(array) ELSE n)

\* searchIngredients(query).map(item => item.name)
searchIngredients(query) == FirstN(NamesContaining(COMMON_INGREDIENTS, ToLowerCase(query)), 8)

RECURSIVE NotExcluded(_, _)
NotExcluded(names, excludeIngredients) ==
  IF names = <<>> THEN <<>>
  ELSE IF Includes(excludeIngredients, Head(names))
  THEN NotExcluded(Tail(names), excludeIngredients)
  ELSE <<Head(names)>> \o NotExcluded(Tail(names), excludeIngredients)

\* the suggestions the effect on [debouncedValue, excludeIngredients] sets
Suggestions(debouncedValue, excludeIngredients) ==
  IF Len(debouncedValue) >= 2
  THEN FirstN(NotExcluded(searchIngredients(debouncedValue), excludeIngredients), 6)
  ELSE <<>>

\* a delayed add whose setIngredients appends to the list of the moment
addIngredientOfRender_Functional(f, closure) ==
  IF AddTrimmed([f EXCEPT !.ingredients = closure.ingredients],
                Trim(closure.currentIngredient)).ingredients = closure.ingredients
  THEN [AddTrimmed([f EXCEPT !.ingredients = closure.ingredients],
                   Trim(closure.currentIngredient))
          EXCEPT !.ingredients = f.ingredients]
  ELSE [AddTrimmed([f EXCEPT !.ingredients = closure.ingredients],
                   Trim(closure.currentIngredient))
          EXCEPT !.ingredients = Append(f.ingredients, Trim(closure.currentIngredient))]

\* the addIngredient of an earlier render, run now: it reads the
\* currentIngredient and the ingredients of that render, and its
\* setIngredients([...ingredients, trimmed]) writes that render's list
addIngredientOfRender(f, closure) ==
  IF AddTrimmed([f EXCEPT !.ingredients = closure.ingredients],
                Trim(closure.currentIngredient)).ingredients = closure.ingredients
  THEN [AddTrimmed([f EXCEPT !.ingredients = closure.ingredients],
                   Trim(closure.currentIngredient))
          EXCEPT !.ingredients = f.ingredients]
  ELSE AddTrimmed([f EXCEPT !.ingredients = closure.ingredients],
                  Trim(closure.currentIngredient))

MaxTimers == 1
SuggestionTyped == {<<"r", "i">>, <<"e", "g">>}
\* the list the form starts from here: one entry short of full
PrefilledLists == {DistinctNames(MaxIngredients - 1)}
\* the entries whose X button is pressed here: the last one of a full list
RemovablePositions == {MaxIngredients}

\* useDebounce(value, 300): the debounced value catches up with the input
Debounced ==
  /\ suggest.debouncedValue /= form.currentIngredient
  /\ suggest' = [suggest EXCEPT !.debouncedValue = form.currentIngredient]
  /\ UNCHANGED <<serverVars, clientVars, modal, toggled, recipeFilters, timers>>

\* handleSelect of a suggestion on show, by click or by Enter: onSelect sets
\* the input to the suggestion and schedules the addIngredient of this render
SelectSuggestion(ingredient) ==
  /\ Includes(Suggestions(suggest.debouncedValue, form.ingredients), ingredient)
  /\ Len(timers.waiting) < MaxTimers
  /\ form' = [form EXCEPT !.currentIngredient = ingredient]
  /\ timers' = [timers EXCEPT !.waiting =
                  Append(@, [currentIngredient |-> form.currentIngredient,
                             ingredients |-> form.ingredients,
                             selected |-> ingredient])]
  /\ UNCHANGED <<serverVars, state, page, pending, issued, lastSettled, lastSubmitted,
                 modal, toggled, recipeFilters, suggest>>

\* 100 ms later the scheduled addIngredient runs
TimerFires ==
  /\ timers.waiting /= <<>>
  /\ form' = addIngredientOfRender(form, Head(timers.waiting))
  /\ timers' = [waiting |-> Tail(timers.waiting),
                lastRun |-> [ran |-> TRUE,
                             seen |-> Len(Head(timers.waiting).ingredients),
                             found |-> Len(form.ingredients)]]
  /\ UNCHANGED <<serverVars, state, page, pending, issued, lastSettled, lastSubmitted,
                 modal, toggled, recipeFilters, suggest>>

\* handleKeyPress: Enter in the input runs addIngredient
PressEnter ==
  /\ ~state.loading
  /\ form' = addIngredient(form)
  /\ UNCHANGED <<serverVars, widgetVars, state, page, pending, issued, lastSettled,
                 lastSubmitted>>

\* the plus button, disabled for an empty input, a full list or while loading
ClickAdd ==
  /\ Trim(form.currentIngredient) /= <<>>
  /\ Len(form.ingredients) < MaxIngredients
  /\ ~state.loading
  /\ form' = addIngredient(form)
  /\ UNCHANGED <<serverVars, widgetVars, state, page, pending, issued, lastSettled,
                 lastSubmitted>>

\* the form with some ingredients already entered
SuggestionInit ==
  /\ ServerIdle
  /\ \E list \in PrefilledLists : form = [InitialForm EXCEPT !.ingredients = list]
  /\ state = InitialState
  /\ page = InitialPage
  /\ pending = {}
  /\ issued = 0
  /\ lastSettled = NoCall
  /\ lastSubmitted = NoSubmission
  /\ modal = InitialModal
  /\ toggled = {}
  /\ recipeFilters = InitialFilters
  /\ suggest = InitialSuggest
  /\ timers = NoTimers

SuggestionNext ==
  \/ \E text \in SuggestionTyped : TypeIngredient(text)
  \/ PressEnter
  \/ ClickAdd
  \/ \E index \in RemovablePositions : RemoveIngredient(index)
  \/ Debounced
  \/ \E i \in 1..Len(COMMON_INGREDIENTS) : SelectSuggestion(COMMON_INGREDIENTS[i])
  \/ TimerFires

SuggestionSpec == SuggestionInit /\ [][SuggestionNext]_vars

(***************************************************************************)
(* Properties.                                                             *)
(***************************************************************************)
\* the request body is JSON that IngredientInputSchema accepts
RecipeRequestAccepted(bodyText) ==
  /\ JSONParse(bodyText).ok
  /\ IngredientInputSchemaParse(JSONParse(bodyText).val).kind = "return"

\* the request body is JSON that IngredientInputSchema rejects
RecipeRequestRejected(bodyText) ==
  /\ JSONParse(bodyText).ok
  /\ IngredientInputSchemaParse(JSONParse(bodyText).val).kind = "throw"

\* the cleaned completion is JSON whose value has an array-typed recipes field
HasRecipesArray(completion) ==
  \E j \in {JSONParse(CleanResponse(completion))} :
    /\ j.ok
    /\ j.val.t = "obj"
    /\ K_recipes \in DOMAIN j.val.v
    /\ j.val.v[K_recipes].t = "arr"

\* the elements of the recipes array of a JSON text, read without any cleaning
DirectRecipes(text) == JSONParse(text).val.v[K_recipes].v

\* the members a recipe-array element hands over to the mapped recipe
MembersOf(x) == IF x.t = "obj" THEN DOMAIN x.v ELSE {}

\* a recipes-endpoint request is past the model call, which resolved
RecipesCallResolved ==
  endpoint = "recipes" /\ pc = "done" /\ modelOutcome.kind = "return"

\* C1: on POST /recipes a prompt is built and the model is called only for a
\* request that IngredientInputSchema accepted; a request the schema rejects
\* has no prompt build and no model call and is answered with status 400,
\* error "Validation Error".
C1_ValidationBeforeModel ==
  endpoint = "recipes" =>
    /\ (promptBuilds > 0 \/ modelCalls > 0 \/ prompt /= <<>>)
         => RecipeRequestAccepted(requestBody)
    /\ RecipeRequestRejected(requestBody) =>
         /\ promptBuilds = 0
         /\ modelCalls = 0
         /\ pc = "done"
         /\ response.status = 400
         /\ response.body.error = "Validation Error"

\* the documented request with ingredients = [] has been answered
C1_Witness ==
  /\ endpoint = "recipes"
  /\ requestBody = B_emptyIngredients
  /\ pc = "done"
  /\ response.status = 400
  /\ modelCalls = 0

\* C2: parseRecipeResponse returns a list exactly when the fence-stripped
\* completion is JSON with an array-typed recipes field, the list having one
\* entry per element of that array (none for an empty array); for every other
\* completion it throws a RecipeParsingError.
C2_ParseReturnsIffRecipesArray ==
  RecipesCallResolved =>
    \A has \in {HasRecipesArray(modelOutcome.value)} :
      /\ (parseOutcome.kind = "return") <=> has
      /\ parseOutcome.kind = "return" =>
           Len(parseOutcome.value)
             = Len(DirectRecipes(CleanResponse(modelOutcome.value)))
      /\ ~has =>
           /\ parseOutcome.kind = "throw"
           /\ parseOutcome.error.name = "RecipeParsingError"

\* the fenced empty recipes array was parsed to the empty list
C2_Witness ==
  /\ RecipesCallResolved
  /\ modelOutcome.value = Wrap("json", BatchText(<<>>))
  /\ parseOutcome = Returned(<<>>)

\* C3: a 500 response of POST /recipes names RecipeParsingError when the
\* model call succeeded and the completion could not be parsed, and
\* RecipeGenerationError only when the model call itself failed.
C3_ErrorKindTellsParsingFromGeneration ==
  (endpoint = "recipes" /\ pc = "done" /\ response.status = 500
     /\ RecipeRequestAccepted(requestBody)) =>
    /\ modelOutcome.kind = "return" => response.body.error = "RecipeParsingError"
    /\ response.body.error = "RecipeGenerationError" => modelOutcome.kind = "throw"

\* the failure body each endpoint answers with once validation has passed
RecipesFailureBody ==
  [success |-> FALSE, error |-> "RecipeGenerationError",
   message |-> <<"Failed to generate recipes">>]
SubstitutionsFailureBody ==
  [success |-> FALSE, error |-> "Substitution Error",
   message |-> <<"Failed to generate ingredient substitutions">>]

\* C4: after validation has passed, the body of a failure response of either
\* endpoint is one fixed body per endpoint, whatever the completion text or
\* the provider error was.
C4_FailureBodyIndependentOfModel ==
  (pc = "done" /\ validation = "valid" /\ response.status /= 200) =>
    /\ response.status = 500
    /\ endpoint = "recipes" => response.body = RecipesFailureBody
    /\ endpoint = "substitutions" => response.body = SubstitutionsFailureBody

\* a provider error with its own message was answered on POST /recipes
C4_Witness ==
  /\ pc = "done"
  /\ endpoint = "recipes"
  /\ validation = "valid"
  /\ modelOutcome.kind = "throw"
  /\ modelOutcome.error.message = <<"Quota exceeded for project 42">>
  /\ response.status = 500

\* C5: on both endpoints every request whose body is not JSON or does not
\* satisfy the request schema is answered with status 400 and error
\* "Validation Error", never with status 500.
C5_BadRequestIs400 ==
  (pc = "done" /\ validation \in {"unparseable", "invalid"}) =>
    /\ response.status = 400
    /\ response.body.error = "Validation Error"

\* C6: every recipe in a 200 response of POST /recipes satisfies RecipeSchema.
C6_ReturnedRecipesSatisfySchema ==
  (endpoint = "recipes" /\ pc = "done" /\ response.status = 200) =>
    \A i \in 1..Len(response.body.recipes) : RecipeSchema(response.body.recipes[i])

C8_MappingChangesOnlyId ==
  (RecipesCallResolved /\ parseOutcome.kind = "return") =>
    \A source \in {DirectRecipes(CleanResponse(modelOutcome.value))} :
    LET mapped == parseOutcome.value
        idBase == idCounter - Len(mapped)
    IN  /\ Len(mapped) = Len(source)
        /\ \A i \in 1..Len(mapped) :
             /\ mapped[i].t = "obj"
             /\ DOMAIN mapped[i].v = MembersOf(source[i]) \cup {K_id}
             /\ \A k \in MembersOf(source[i]) \ {K_id} :
                  mapped[i].v[k] = source[i].v[k]
             /\ mapped[i].v[K_id] = GenerateId(idBase + i)

\* a full recipe followed by a recipe that carried its own id was mapped
C8_Witness ==
  /\ RecipesCallResolved
  /\ modelOutcome.value = BatchText(<<1, 2>>)
  /\ parseOutcome.kind = "return"
  /\ parseOutcome.value[2].v[K_id] /= JStr(<<"x">>)

\* C9: for a well-formed JSON text J wrapped in code-fence markers, cleaning
\* removes the markers and nothing else, and the parsed recipes are those of
\* J itself.
C9_FenceStrippingKeepsJson ==
  RecipesCallResolved =>
    \A tag \in {"json", "plain"}, b \in Batches :
      modelOutcome.value = Wrap(tag, BatchText(b)) =>
        /\ CleanResponse(modelOutcome.value) = Trim(BatchText(b))
        /\ parseOutcome.kind = "return"
        /\ Len(parseOutcome.value) = Len(DirectRecipes(BatchText(b)))
        /\ \A i \in 1..Len(parseOutcome.value) :
             \A k \in MembersOf(DirectRecipes(BatchText(b))[i]) \ {K_id} :
               parseOutcome.value[i].v[k] = DirectRecipes(BatchText(b))[i].v[k]

\* C10: the RecipeParsingError for a completion that is JSON without an
\* array-typed recipes field differs from the one for a completion that is
\* not JSON: its originalError is a SyntaxError exactly when the cleaned
\* completion is not JSON, and is the missing-recipes-array Error when the
\* cleaned completion is a JSON value other than null.
C10_FormatErrorDistinctFromSyntaxError ==
  (RecipesCallResolved /\ parseOutcome.kind = "throw") =>
    LET j == JSONParse(CleanResponse(modelOutcome.value))
        original == parseOutcome.error.originalError
    IN  /\ original /= NoError
        /\ (original.name = "SyntaxError") <=> ~j.ok
        /\ (j.ok /\ j.val.t /= "null") => original = MissingRecipesError

\* a completion that is JSON with a recipes field that is no array was refused
C10_Witness ==
  /\ RecipesCallResolved
  /\ modelOutcome.value = ObjectText(<<MemberText(K_recipes, <<"5">>)>>)
  /\ parseOutcome.kind = "throw"
  /\ parseOutcome.error.originalError = MissingRecipesError

\* the text has a dietary-compliance clause: the lead, filters, the tail
HasComplianceClause(text) ==
  \E i \in 1..Len(text) :
    /\ HasAt(text, i, ComplianceLead)
    /\ \E j \in (i + Len(ComplianceLead))..Len(text) : HasAt(text, j, ComplianceTail)

\* what the schema made of the body of the request at hand
ValidatedRequest == IngredientInputSchemaParse(JSONParse(requestBody).val)

\* the ingredient lists the allow-list of the specification admits
AllowedIngredientList(names) ==
  /\ Len(names) >= MinIngredients
  /\ Len(names) <= MaxIngredients
  /\ \A i \in 1..Len(names) : isValidIngredient(names[i])
  /\ \A i, j \in 1..Len(names) : i /= j => names[i] /= names[j]

\* C11: POST /recipes accepts an ingredients list exactly when it has 2 to 15
\* items, each item is made of letters, spaces and hyphens only, is at most
\* 50 characters long and is not blank, and no item occurs twice; every other
\* list is answered with 400 and the issues of the list.
C11_IngredientListAcceptance ==
  \A names \in BoundaryIngredientLists :
    (endpoint = "recipes" /\ requestBody = BodyText(names, <<>>, <<>>)) =>
      /\ (validation = "valid") <=> AllowedIngredientList(names)
      /\ validation /= "valid" =>
           /\ response.status = 400
           /\ response.body.details = ValidatedRequest.error.errors

\* the servings value of the request at hand
RequestServings == GetProperty(JSONParse(requestBody).val, K_servings)

IsIntegerIn(x, lo, hi) ==
  IsNum(x) /\ x.frac = <<>> /\ ~NumLess(x, lo) /\ ~NumGreater(x, hi)

\* C12: POST /recipes accepts servings exactly when it is an integer from 1
\* to 12 or is absent; absent servings are validated to 4; a number below 1
\* is answered with the minimum-servings message and a number above 12 with
\* the maximum-servings message.
C12_ServingsIntegerInRange ==
  \A t \in BoundaryServingsTexts :
    (endpoint = "recipes" /\ requestBody = BodyText(<<W_egg, W_rice>>, <<>>, t)) =>
      /\ (validation = "valid") <=>
           (RequestServings.t = "undefined"
              \/ IsIntegerIn(RequestServings, MinServings, MaxServings))
      /\ RequestServings.t = "undefined" =>
           ValidatedRequest.value.servings = JNum(DefaultServings)
      /\ (IsNum(RequestServings) /\ NumLess(RequestServings, MinServings)) =>
           /\ response.status = 400
           /\ response.body.details[1].message = <<"At least 1 serving required">>
      /\ (IsNum(RequestServings) /\ NumGreater(RequestServings, MaxServings)) =>
           /\ response.status = 400
           /\ response.body.details[1].message = <<"Maximum 12 servings allowed">>

C20_PromptFromInputs ==
  (endpoint = "recipes" /\ validation = "valid") =>
    \A data \in {ValidatedRequest.value} :
      /\ prompt = buildRecipePrompt(data.ingredients, data.dietaryFilters, data.servings)
      /\ \A names \in {JoinComma(data.ingredients)} : Contains(prompt, names)
      /\ HasComplianceClause(prompt) <=> Len(data.dietaryFilters) > 0
      /\ Len(data.dietaryFilters) > 0 =>
           \A clause \in {ComplianceLead \o JoinComma(data.dietaryFilters)
                             \o ComplianceTail} :
             Contains(prompt, clause)

\* the recipes list a response body carries
RecipesIn(bodyText) == GetProperty(JSONParse(bodyText).val, K_recipes)

\* this step is the step in which the fetch of the call settles
Settles(call) == call \in pending /\ call \notin pending'

C19_GenerationStates ==
  /\ state = [recipes |-> JArr(<<>>), selectedRecipe |-> JNull,
              loading |-> FALSE, error |-> JNull]
  /\ [][/\ issued' = issued + 1 => (state'.loading /\ state'.error = JNull)
        /\ \A call \in pending :
             (Settles(call) /\ TryOutcome(lastSettled'.outcome).kind = "return") =>
               /\ state'.recipes = RecipesOrEmpty(RecipesIn(lastSettled'.outcome.body))
               /\ ~state'.loading
               /\ state'.error = JNull]_vars

\* C13: on the page at most one generateRecipes call is outstanding, and
\* loading is true exactly while one is: from the submission that issued it
\* to the step in which its fetch settles.
C13_OneOutstandingRequest ==
  /\ Cardinality(pending) <= 1
  /\ state.loading <=> pending /= {}

\* a second request is in flight after the first one has completed
C13_Witness ==
  /\ issued = 2
  /\ pending = {2}
  /\ state.loading
  /\ lastSettled.call = 1

\* the data satisfies IngredientInputSchema
SatisfiesInputSchema(data) ==
  /\ Len(data.ingredients) >= MinIngredients
  /\ Len(data.ingredients) <= MaxIngredients
  /\ \A i \in 1..Len(data.ingredients) :
       Len(data.ingredients[i]) \in MinIngredientLen..MaxIngredientLen
  /\ \A i \in 1..Len(data.dietaryFilters) : data.dietaryFilters[i] \in DietaryFilterNames
  /\ IsNum(data.servings)
  /\ ~NumLess(data.servings, MinServings)
  /\ ~NumGreater(data.servings, MaxServings)

\* the message of the first field of the form state that the schema refuses
FirstOffence(f) ==
  IF Len(f.ingredients) < MinIngredients THEN <<"Please enter at least 2 ingredients">>
  ELSE IF Len(f.ingredients) > MaxIngredients THEN <<"Maximum 15 ingredients allowed">>
  ELSE IF \E i \in 1..Len(f.dietaryFilters) : f.dietaryFilters[i] \notin DietaryFilterNames
  THEN <<"Invalid enum value">>
  ELSE IF NumLess(f.servings, MinServings) THEN <<"At least 1 serving required">>
  ELSE <<"Maximum 12 servings allowed">>

C17_NoDuplicateIngredients ==
  \A i, j \in 1..Len(form.ingredients) :
    i /= j => ToLowerCase(form.ingredients[i]) /= ToLowerCase(form.ingredients[j])

\* the call failed: its fetch was rejected or the response is not ok
FailedOutcome(outcome) ==
  outcome.kind = "rejected" \/ outcome.status < 200 \/ outcome.status > 299

\* the message field of the body of a response, <<>> if it has none
ResponseMessage(outcome) ==
  IF JSONParse(outcome.body).ok
       /\ GetProperty(JSONParse(outcome.body).val, K_message).t = "str"
  THEN GetProperty(JSONParse(outcome.body).val, K_message).v
  ELSE <<>>

\* the message of the response, or the text made of the HTTP status
ResponseFailureText(outcome) ==
  IF ResponseMessage(outcome) /= <<>> THEN ResponseMessage(outcome)
  ELSE <<"HTTP error! status: ", ToString(outcome.status)>>

SubstitutionsParsed == JSONParseOutcome(CleanResponse(modelOutcome.value))

\* POST /substitutions has been answered after the model resolved with a
\* completion that parses as JSON
SubstitutionsAnswered ==
  /\ endpoint = "substitutions"
  /\ pc = "done"
  /\ modelOutcome.kind = "return"
  /\ SubstitutionsParsed.kind = "return"

\* C21: in the substitution variant a completion whose parsed value has no
\* array-typed substitutions field, one whose substitutions field is present
\* but not an array included, is answered with a failure response.
C21_SubstitutionsMustBeArray ==
  (SubstitutionsAnswered
     /\ ~IsArray(GetProperty(SubstitutionsParsed.value, K_substitutions)))
    => response.status /= 200

\* C22: every 200 response of POST /substitutions has success = true, a
\* top-level substitutions field that is the array of per-ingredient entries
\* and a top-level generalTips field that is the list of tips.
C22_SubstitutionsSuccessShape ==
  (endpoint = "substitutions" /\ pc = "done" /\ response.status = 200) =>
    /\ response.body.success
    /\ IsArray(response.body.substitutions)
    /\ "generalTips" \in DOMAIN response.body

\* C23: when the fetch of every call eventually settles, every generateRecipes
\* call that is outstanding is eventually followed by a state in which it has
\* completed and loading is false, whatever its fetch settled with.
C23_LoadingEventuallyFalse ==
  \A call \in 1..MaxCalls :
    (call \in pending) ~> (call \notin pending /\ ~state.loading)

\* a call whose ok response had a body that is not JSON has completed and
\* loading is false
C23_Witness ==
  /\ lastSettled.call = 1
  /\ lastSettled.outcome = HttpResponse(200, T_html)
  /\ pending = {}
  /\ ~state.loading
  /\ state.error /= JNull

\* C26: in useRecipes loading is true in every state in which at least one
\* request is still outstanding.
C26_LoadingWhileOutstanding == pending /= {} => state.loading

\* C27: in useRecipes selectedRecipe is null or an element of the current
\* recipes list.
C27_SelectedRecipeInList ==
  state.selectedRecipe = JNull \/ state.selectedRecipe \in RecipesShown

\* C28: on HomePage, whenever recipes are displayed and nothing is pending
\* (recipes non-empty, loading false), showFilters is true.
C28_FiltersShownWithRecipes ==
  (pending = {} /\ ~state.loading /\ RecipesShown /= {}) => page.showFilters

\* C29: the saved indicator of RecipeModal is per recipe: the recipe that is
\* open is shown as saved exactly when Save was toggled on for that recipe;
\* so after saving A, closing and opening B, B is shown as not saved.
C29_SavedIsPerRecipe ==
  state.selectedRecipe /= JNull =>
    (modal.isFavorite <=> state.selectedRecipe \in toggled)

\* the recipe satisfies every active criterion of the filter state; the
\* servings criterion is that its servings equals one of the selected values
SatisfiesCriteria(recipe, f) ==
  /\ f.search /= <<>> => MatchesSearch(recipe, ToLowerCase(f.search))
  /\ f.maxPrepTime < 999 => PrepMinutes(recipe) <= f.maxPrepTime
  /\ f.servings /= <<>> =>
       \E i \in 1..Len(f.servings) :
         f.servings[i].v = NumberText(GetProperty(recipe, K_servings))
  /\ f.difficulty /= <<>> =>
       \E i \in 1..Len(f.difficulty) : f.difficulty[i] = GetProperty(recipe, K_difficulty)
  /\ f.cuisine /= <<>> =>
       \E i \in 1..Len(f.cuisine) : f.cuisine[i] = GetProperty(recipe, K_cuisine)
  /\ \A i \in 1..Len(f.dietary) :
       \E j \in 1..Len(GetProperty(recipe, K_tags).v) :
         GetProperty(recipe, K_tags).v[j] = f.dietary[i]
  /\ f.maxCalories < 2000 =>
       GetProperty(GetProperty(recipe, K_nutrition), K_calories).v <= f.maxCalories

\* the order-preserving sub-list of the recipes that satisfy the criteria
RECURSIVE Satisfying(_, _)
Satisfying(recipes, f) ==
  IF recipes = <<>> THEN <<>>
  ELSE IF SatisfiesCriteria(Head(recipes), f)
  THEN <<Head(recipes)>> \o Satisfying(Tail(recipes), f)
  ELSE Satisfying(Tail(recipes), f)

\* C30: the list RecipeFilters passes to onFilter is the order-preserving
\* sub-list of the recipes prop holding exactly the recipes that satisfy
\* every active criterion: with servings values selected, exactly the recipes
\* whose servings is one of them; with the default filter state, the full list.
C30_FilteredListMatchesCriteria ==
  page.filteredRecipes = JArr(Satisfying(state.recipes.v, recipeFilters))

\* this step runs the delayed add that a suggestion selection scheduled
DelayedAddRuns ==
  /\ timers.waiting /= <<>>
  /\ timers'.waiting = Tail(timers.waiting)
  /\ timers'.lastRun.ran

\* C24: the delayed add that runs after a suggestion S was selected from a
\* list with room appends S itself to the form's ingredient list.
C24_SuggestionItselfIsAdded ==
  [][(DelayedAddRuns /\ Len(form.ingredients) < MaxIngredients
        /\ Len(Head(timers.waiting).ingredients) < MaxIngredients)
       => form'.ingredients = Append(form.ingredients, Head(timers.waiting).selected)]_vars

====
